---- MODULE Spec2Model ----
(***************************************************************************)
(* A model of the article-digest pipeline: the reply parser and formatter  *)
(* of summarizer.py (DigestGenerator._parse_response, format_digest), the  *)
(* scraper of scraper.py (link discovery, _check_robots_txt, _fetch_page,  *)
(* _scrape_article_page, scrape_articles) and the handlers that run a      *)
(* digest generation (generate and api_generate of app.py, main of         *)
(* digest_generator.py), and the crediting of a paid checkout session      *)
(* (handle_successful_payment of payments.py, add_credits of auth.py).     *)
(*                                                                         *)
(* Text.  A Python string is modelled by the sequence of its whitespace-   *)
(* separated tokens, so str.strip() and " ".join(s.split()) are built in   *)
(* and s + " " + t is the concatenation of two token sequences.  A reply   *)
(* is the sequence of its lines.  The tokens come from a fixed alphabet:   *)
(* the nine grammar tokens, numbering tokens ("1."), plain words, a word   *)
(* that starts with a digit ("2024"), a word that ends with a full stop    *)
(* ("end.") and a URL.  The character-level tests of the code              *)
(* (startswith, in, replace, split, isdigit) are defined on that alphabet. *)
(*                                                                         *)
(* URLs of the link discovery are sequences of one-character strings, so   *)
(* the substring tests of the code are substring tests in the model.       *)
(*                                                                         *)
(* Titles and author names of an article page are [body, pad]: a sequence  *)
(* of characters followed by pad filler letters that no pattern of the     *)
(* code contains, so that lengths of hundreds of characters need no long   *)
(* sequence.  A content is its number of characters.                       *)
(*                                                                         *)
(* Payments.  The database holds the committed purchase row and the        *)
(* committed balance of the buyer; every call keeps what it read.          *)
(***************************************************************************)
EXTENDS Integers, Sequences, FiniteSets, TLC

VARIABLES
    \* ---- summarizer.py: one call of _parse_response, then format_digest
    response,         \* the reply, a sequence of lines (already split on "\n")
    articles,         \* the input articles: the sequence of their urls
    output_type,      \* the parameter output_type: "digest", "social", "both"
    idx,              \* number of lines the for loop has consumed
    current_section,  \* "none" models None
    current_article,  \* dict
    current_post,     \* dict
    result,           \* dict of the four keys
    raised,           \* TRUE once a statement of the parser has raised
    formatted,        \* the lines format_digest returns
    pc,               \* "loop", "raised", "parsed", "formatted"; "idle": no parse
    \* ---- scraper.py: one call of _extract_article_links
    soup,             \* the listing page: a sequence of blocks
    links,            \* the result list being built
    strategy,         \* the strategy to run next: 1..4, 5 when returned; 0: no call
    producer,         \* <<strategy, selector>> that appended the links
    ran,              \* the strategies whose body has run
    \* ---- scraper.py: one call of scrape_articles
    robots_txt,       \* what GET <base>/robots.txt answers
    listing,          \* the listing page: failing requests, links discovered
    site,             \* the page behind each discovered link
    count,            \* the argument of scrape_articles
    allowed,          \* the values _check_robots_txt has returned
    article_links,    \* the links of the listing page, in discovery order
    link_i,           \* loop index i of lines 404-414, 1-based
    scraped,          \* the local list `articles` of scrape_articles
    attempt,          \* loop variable of _fetch_page
    fetch_log,        \* the requests and sleeps of the current _fetch_page
    fetched,          \* what the last _fetch_page gave: document or error
    attempted,        \* the links handed to _scrape_article_page, in order
    naps,             \* one entry per call of time.sleep(0.5), line 414
    outcome,          \* "running", then the list returned or the failure
    spc,              \* position in scrape_articles; "idle": no call
    \* ---- app.py, digest_generator.py: one digest-generation run
    route,            \* "main", "generate" or "api_generate"
    raw_count,        \* the count as submitted
    api_key,          \* TRUE iff ANTHROPIC_API_KEY is set
    local_count,      \* the handler's variable count, once it is an int
    local_articles,   \* the handler's variable articles
    events,           \* the outside calls of the run, in order
    reply,            \* what the run ends with
    apc,              \* position in the handler; "idle": no run
    \* ---- payments.py: the calls of handle_successful_payment for one session
    payment_status,   \* session.payment_status as Stripe gives it
    purchase,         \* the committed row of purchases for the session
    credits,          \* the committed users.credits of the buyer
    credits_before,   \* users.credits when the checkout session was created
    calls             \* per call: who made it, its position, what it read

parseVars == <<response, articles, output_type, idx, current_section,
               current_article, current_post, result, raised, formatted, pc>>
linkVars == <<soup, links, strategy, producer, ran>>
scrapeVars == <<robots_txt, listing, site, count, allowed, article_links,
                link_i, scraped, attempt, fetch_log, fetched, attempted,
                naps, outcome, spc>>
appVars == <<route, raw_count, api_key, local_count, local_articles, events,
             reply, apc>>
payVars == <<payment_status, purchase, credits, credits_before, calls>>
vars == <<parseVars, linkVars, scrapeVars, appVars, payVars>>

\* no scrape_articles call is in progress
ScrapeIdle ==
    /\ robots_txt = <<>>
    /\ listing = <<>>
    /\ site = <<>>
    /\ count = 0
    /\ allowed = <<>>
    /\ article_links = <<>>
    /\ link_i = 0
    /\ scraped = <<>>
    /\ attempt = 0
    /\ fetch_log = <<>>
    /\ fetched = <<>>
    /\ attempted = <<>>
    /\ naps = <<>>
    /\ outcome = <<>>
    /\ spc = "idle"

\* no digest-generation run is in progress
AppIdle ==
    /\ route = "none"
    /\ raw_count = <<>>
    /\ api_key = FALSE
    /\ local_count = 0
    /\ local_articles = <<>>
    /\ events = <<>>
    /\ reply = <<>>
    /\ apc = "idle"

\* no payment is being handled
PayIdle ==
    /\ payment_status = "none"
    /\ purchase = <<>>
    /\ credits = 0
    /\ credits_before = 0
    /\ calls = <<>>

----------------------------------------------------------------------------
(* Bounds of the model *)

MaxLines == 3        \* longest free-form reply, in lines
MaxArticles == 2     \* most input articles / records of a well-formed reply
MaxBlocks == 2       \* most elements of a listing page

(* Program constants *)

MAX_SUMMARY_WORDS == 50

----------------------------------------------------------------------------
(* Python dicts: functions over the set of their keys *)

EmptyDict == [k \in {} |-> <<>>]

Truthy(d) == DOMAIN d # {}

Put(d, k, v) == [x \in (DOMAIN d) \cup {k} |-> IF x = k THEN v ELSE d[x]]

----------------------------------------------------------------------------
(* The token alphabet and the character-level tests on it *)

GrammarTokens ==
    {"HEADLINE:", "COMBINED_SUMMARY:", "ARTICLE_SUMMARIES:", "SOCIAL_POSTS:",
     "TITLE:", "AUTHOR:", "SUMMARY:", "POST_HEADLINE:", "POST_SUMMARY:"}

Num(i) == ToString(i) \o "."

NumberTokens == {Num(i) : i \in 1..9}

UrlToken == "http://m.io/x"

\* str[0].isdigit() of a token
TokIsDigitFirst(t) == t \in NumberTokens \cup {"2024"}

\* token.endswith(".")
TokEndsWithDot(t) == t \in NumberTokens \cup {"end."}

\* "." in token
TokHasDot(t) == TokEndsWithDot(t) \/ t = UrlToken

\* token.replace(p, ""): the grammar tokens that hold p as a proper substring
\* keep what is left of them
TokReplace(t, p) ==
    IF t = p THEN ""
    ELSE IF t = "POST_" \o p THEN "POST_"
    ELSE IF t = "COMBINED_" \o p THEN "COMBINED_"
    ELSE t

RECURSIVE Replace(_, _)
\* line.replace(p, "").strip()
Replace(line, p) ==
    IF line = <<>> THEN <<>>
    ELSE LET t == TokReplace(Head(line), p)
         IN  (IF t = "" THEN <<>> ELSE <<t>>) \o Replace(Tail(line), p)

\* line.startswith(p), p a grammar token or a numbering token
StartsWith(line, p) == line # <<>> /\ line[1] = p

StartsWithAny(line, ps) == \E p \in ps : StartsWith(line, p)

\* p in line, p a grammar token
Contains(line, p) == \E i \in 1..Len(line) : line[i] = p

\* (". " + p) in line: a full stop, one space, then p
ContainsDotThen(line, p) ==
    \E i \in 1..(Len(line) - 1) : TokEndsWithDot(line[i]) /\ line[i + 1] = p

\* line.split(p, 1)[1].strip(): the text after the first p
AfterFirst(line, p) ==
    LET i == CHOOSE j \in 1..Len(line) :
                 line[j] = p /\ \A k \in 1..(j - 1) : line[k] # p
    IN  SubSeq(line, i + 1, Len(line))

\* line[0].isdigit(); line[0] of an empty string raises IndexError
FirstIsDigit(line) == line # <<>> /\ TokIsDigitFirst(line[1])

\* "." in line
HasDot(line) == \E i \in 1..Len(line) : TokHasDot(line[i])

----------------------------------------------------------------------------
(* summarizer.py: DigestGenerator._parse_response *)

EmptyResult ==
    [headline |-> <<>>, combined_summary |-> <<>>,
     article_summaries |-> <<>>, social_posts |-> <<>>]

\* the test of line 332 without its '"summary" in current_article'
IsArticleContinuation_NoKeyCheck(line, art) ==
    ~StartsWithAny(line, {"TITLE:", "AUTHOR:", "SUMMARY:", "SOCIAL_POSTS:"})

\* the test of line 332 that makes a line a continuation of the summary
IsArticleContinuation(line, art) ==
    /\ "summary" \in DOMAIN art
    /\ ~StartsWithAny(line, {"TITLE:", "AUTHOR:", "SUMMARY:", "SOCIAL_POSTS:"})

\* the test of line 348 that makes a line a continuation of the post summary
IsPostContinuation(line, post) ==
    /\ "summary" \in DOMAIN post
    /\ ~StartsWithAny(line, {"POST_HEADLINE:", "POST_SUMMARY:"})
    /\ ~(FirstIsDigit(line) /\ HasDot(line))

\* the chain with line 313 as 'elif current_section in (None, "combined_summary")'
Branch_ProseIntoSummary(line, section, art, post) ==
    IF line = <<>> THEN "blank"
    ELSE IF StartsWith(line, "HEADLINE:") THEN "headline"
    ELSE IF StartsWith(line, "COMBINED_SUMMARY:") THEN "combined_summary"
    ELSE IF StartsWith(line, "ARTICLE_SUMMARIES:") THEN "article_summaries"
    ELSE IF StartsWith(line, "SOCIAL_POSTS:") THEN "social_posts"
    ELSE IF section \in {"none", "combined_summary"} THEN
        IF ~StartsWithAny(line, {"HEADLINE:", "ARTICLE_SUMMARIES:", "1.", "TITLE:"})
        THEN "cs_continue" ELSE "skip"
    ELSE IF section = "articles" THEN
        IF FirstIsDigit(line) /\ ContainsDotThen(line, "TITLE:") THEN "numbered_title"
        ELSE IF StartsWith(line, "TITLE:") THEN "title"
        ELSE IF StartsWith(line, "AUTHOR:") THEN "author"
        ELSE IF StartsWith(line, "SUMMARY:") THEN "summary"
        ELSE IF IsArticleContinuation(line, art) THEN "article_continue"
        ELSE "skip"
    ELSE IF section = "social_posts" THEN
        IF FirstIsDigit(line) /\ ContainsDotThen(line, "POST_HEADLINE:")
        THEN "numbered_post_headline"
        ELSE IF StartsWith(line, "POST_HEADLINE:") THEN "post_headline"
        ELSE IF StartsWith(line, "POST_SUMMARY:") THEN "post_summary"
        ELSE IF IsPostContinuation(line, post) THEN "post_continue"
        ELSE "skip"
    ELSE "skip"

\* The branch of the if/elif chain of lines 296-350 that a line takes.
Branch(line, section, art, post) ==
    IF line = <<>> THEN "blank"
    ELSE IF StartsWith(line, "HEADLINE:") THEN "headline"
    ELSE IF StartsWith(line, "COMBINED_SUMMARY:") THEN "combined_summary"
    ELSE IF StartsWith(line, "ARTICLE_SUMMARIES:") THEN "article_summaries"
    ELSE IF StartsWith(line, "SOCIAL_POSTS:") THEN "social_posts"
    ELSE IF section = "combined_summary" THEN
        IF ~StartsWithAny(line, {"HEADLINE:", "ARTICLE_SUMMARIES:", "1.", "TITLE:"})
        THEN "cs_continue" ELSE "skip"
    ELSE IF section = "articles" THEN
        IF FirstIsDigit(line) /\ ContainsDotThen(line, "TITLE:") THEN "numbered_title"
        ELSE IF StartsWith(line, "TITLE:") THEN "title"
        ELSE IF StartsWith(line, "AUTHOR:") THEN "author"
        ELSE IF StartsWith(line, "SUMMARY:") THEN "summary"
        ELSE IF IsArticleContinuation(line, art) THEN "article_continue"
        ELSE "skip"
    ELSE IF section = "social_posts" THEN
        IF FirstIsDigit(line) /\ ContainsDotThen(line, "POST_HEADLINE:")
        THEN "numbered_post_headline"
        ELSE IF StartsWith(line, "POST_HEADLINE:") THEN "post_headline"
        ELSE IF StartsWith(line, "POST_SUMMARY:") THEN "post_summary"
        ELSE IF IsPostContinuation(line, post) THEN "post_continue"
        ELSE "skip"
    ELSE "skip"

\* d["summary"] += " " + line raises KeyError when d has no summary
SummaryKeyError(d) == "summary" \notin DOMAIN d

AppendSummary(d, line) ==
    IF SummaryKeyError(d) THEN d ELSE Put(d, "summary", d["summary"] \o line)

\* 'if rec: lst.append(rec)' left out
Flush_Drop(lst, rec) == lst

\* lst.append(rec) without the 'if rec' that guards it
Flush_Always(lst, rec) == Append(lst, rec)

\* if rec: lst.append(rec)
Flush(lst, rec) == IF Truthy(rec) THEN Append(lst, rec) ELSE lst

\* the url backfill with the bound 'i < len(articles) - 1'
AddUrls_OffByOne(recs, arts) ==
    [i \in 1..Len(recs) |->
        IF i < Len(arts) THEN Put(recs[i], "url", arts[i]) ELSE recs[i]]

\* lines 359-361 and 364-366: for i, rec in enumerate(recs): if i < len(articles)
AddUrls(recs, arts) ==
    [i \in 1..Len(recs) |->
        IF i <= Len(arts) THEN Put(recs[i], "url", arts[i]) ELSE recs[i]]

\* One iteration of the loop of line 294.
ParseLine ==
    /\ pc = "loop"
    /\ idx < Len(response)
    /\ LET line == response[idx + 1]
           b == Branch(line, current_section, current_article, current_post)
           err == \/ b = "article_continue" /\ SummaryKeyError(current_article)
                  \/ b = "post_continue" /\ SummaryKeyError(current_post)
       IN  /\ idx' = idx + 1
           /\ raised' = err
           /\ pc' = IF err THEN "raised" ELSE "loop"
           /\ current_section' =
                CASE b = "headline" -> "headline"
                  [] b = "combined_summary" -> "combined_summary"
                  [] b = "article_summaries" -> "articles"
                  [] b = "social_posts" -> "social_posts"
                  [] OTHER -> current_section
           /\ result' =
                CASE b = "headline" ->
                       [result EXCEPT !.headline = Replace(line, "HEADLINE:")]
                  [] b = "combined_summary" ->
                       [result EXCEPT !.combined_summary =
                                          Replace(line, "COMBINED_SUMMARY:")]
                  [] b = "cs_continue" ->
                       [result EXCEPT !.combined_summary = @ \o line]
                  [] b \in {"social_posts", "numbered_title", "title"} ->
                       [result EXCEPT !.article_summaries =
                                          Flush(@, current_article)]
                  [] b \in {"numbered_post_headline", "post_headline"} ->
                       [result EXCEPT !.social_posts = Flush(@, current_post)]
                  [] OTHER -> result
           /\ current_article' =
                CASE b = "social_posts" -> EmptyDict
                  [] b = "numbered_title" ->
                       Put(EmptyDict, "title",
                           IF Contains(line, "TITLE:")
                           THEN AfterFirst(line, "TITLE:") ELSE <<>>)
                  [] b = "title" ->
                       Put(EmptyDict, "title", Replace(line, "TITLE:"))
                  [] b = "author" ->
                       Put(current_article, "author", Replace(line, "AUTHOR:"))
                  [] b = "summary" ->
                       Put(current_article, "summary", Replace(line, "SUMMARY:"))
                  [] b = "article_continue" ->
                       AppendSummary(current_article, line)
                  [] OTHER -> current_article
           /\ current_post' =
                CASE b = "numbered_post_headline" ->
                       Put(EmptyDict, "headline",
                           IF Contains(line, "POST_HEADLINE:")
                           THEN AfterFirst(line, "POST_HEADLINE:") ELSE <<>>)
                  [] b = "post_headline" ->
                       Put(EmptyDict, "headline", Replace(line, "POST_HEADLINE:"))
                  [] b = "post_summary" ->
                       Put(current_post, "summary", Replace(line, "POST_SUMMARY:"))
                  [] b = "post_continue" -> AppendSummary(current_post, line)
                  [] OTHER -> current_post
    /\ UNCHANGED <<response, articles, output_type, formatted, linkVars,
                   scrapeVars, appVars, payVars>>

\* Lines 352-371: flush the open records, backfill the urls, return.  The
\* whitespace clean-up of combined_summary (line 369) is what the token
\* sequence already is.
FinishParse ==
    /\ pc = "loop"
    /\ idx = Len(response)
    /\ result' =
         [result EXCEPT
            !.article_summaries = AddUrls(Flush(@, current_article), articles),
            !.social_posts = AddUrls(Flush(@, current_post), articles)]
    /\ pc' = "parsed"
    /\ UNCHANGED <<response, articles, output_type, idx, current_section,
                   current_article, current_post, raised, formatted, linkVars,
                   scrapeVars, appVars, payVars>>

----------------------------------------------------------------------------
(* summarizer.py: DigestGenerator.format_digest *)

\* f"{m}{text}{m}": the marker is glued to the first and to the last word
Wrap(text, m) ==
    IF text = <<>> THEN <<m \o m>>
    ELSE IF Len(text) = 1 THEN <<m \o text[1] \o m>>
    ELSE <<m \o text[1]>> \o SubSeq(text, 2, Len(text) - 1)
         \o <<text[Len(text)] \o m>>

\* dict.get(key, default)
Get(d, k, default) == IF k \in DOMAIN d THEN d[k] ELSE default

\* the word limit with the test 'len(words) >= MAX_SUMMARY_WORDS'
EnforceWordLimit_OffByOne(words) ==
    IF Len(words) >= MAX_SUMMARY_WORDS
    THEN SubSeq(words, 1, MAX_SUMMARY_WORDS - 1)
         \o <<words[MAX_SUMMARY_WORDS] \o "...">>
    ELSE words

\* lines 396-398: " ".join(words[:MAX_SUMMARY_WORDS]) + "..."
EnforceWordLimit(words) ==
    IF Len(words) > MAX_SUMMARY_WORDS
    THEN SubSeq(words, 1, MAX_SUMMARY_WORDS - 1)
         \o <<words[MAX_SUMMARY_WORDS] \o "...">>
    ELSE words

\* lines 390-403: the four lines of one article
ArticleLines(i, article) ==
    LET title == Get(article, "title", <<"Untitled">>)
        author == Get(article, "author", <<"Unknown", "Author">>)
        summary == EnforceWordLimit(Get(article, "summary", <<>>))
    IN  << <<Num(i)>> \o Wrap(title, "**"), <<>>,
           Wrap(author, "*") \o summary, <<>> >>

RECURSIVE AllArticleLines(_, _)
AllArticleLines(recs, i) ==
    IF i > Len(recs) THEN <<>>
    ELSE ArticleLines(i, recs[i]) \o AllArticleLines(recs, i + 1)

\* the list `output` of format_digest, before "\n".join
FormatLines(digest) ==
    <<digest.headline, <<>>>>
    \o (IF digest.combined_summary # <<>>
        THEN <<digest.combined_summary, <<>>>> ELSE <<>>)
    \o << <<"Articles">>, <<>> >>
    \o AllArticleLines(digest.article_summaries, 1)

FormatDigest ==
    /\ pc = "parsed"
    /\ formatted' = FormatLines(result)
    /\ pc' = "formatted"
    /\ UNCHANGED <<response, articles, output_type, idx, current_section,
                   current_article, current_post, result, raised, linkVars,
                   scrapeVars, appVars, payVars>>

----------------------------------------------------------------------------
(* The inputs of one parse: replies and article lists *)

Words(n) == [i \in 1..n |-> "s" \o ToString(i)]

\* the url of the i-th input article
ArticleUrl(i) == "https://site.org/a" \o ToString(i)

ArticleList(n) == [i \in 1..n |-> ArticleUrl(i)]

\* lines a free-form reply is made of
LineSet ==
    { <<>>,
      <<"HEADLINE:", "w1">>,
      <<"COMBINED_SUMMARY:", "w2">>,
      <<"ARTICLE_SUMMARIES:">>,
      <<"1.", "TITLE:", "t1">>,
      <<"TITLE:", "t2">>,
      <<"AUTHOR:", "a1">>,
      <<"SUMMARY:", "w4">>,
      <<"SUMMARY:">> \o Words(MAX_SUMMARY_WORDS + 1),
      <<"w5", UrlToken>>,
      <<"2024", "end.", "TITLE:", "t3">>,
      <<"SOCIAL_POSTS:">>,
      <<"1.", "POST_HEADLINE:", "h1">>,
      <<"POST_SUMMARY:", "p1">> }

RECURSIVE SeqsUpTo(_, _)
\* the sequences over S of length at most n
SeqsUpTo(S, n) ==
    IF n = 0 THEN {<<>>}
    ELSE LET shorter == SeqsUpTo(S, n - 1)
         IN  shorter \cup {Append(q, x) : q \in {r \in shorter : Len(r) = n - 1}, x \in S}

FreeReplies == SeqsUpTo(LineSet, MaxLines)

\* the texts a well-formed reply gives as a summary
SummaryBodies ==
    { <<"w4">>, <<"see", UrlToken>>,
      Words(MAX_SUMMARY_WORDS), Words(MAX_SUMMARY_WORDS + 1) }

TitleOf(i) == <<"t" \o ToString(i)>>

RECURSIVE Triples(_, _)
\* the numbered TITLE/AUTHOR/SUMMARY triples i..Len(body), a blank line after each
Triples(body, i) ==
    IF i > Len(body) THEN <<>>
    ELSE << <<Num(i), "TITLE:">> \o TitleOf(i),
            <<"AUTHOR:", "a" \o ToString(i)>>,
            <<"SUMMARY:">> \o body[i],
            <<>> >> \o Triples(body, i + 1)

RECURSIVE Posts(_, _)
Posts(n, i) ==
    IF i > n THEN <<>>
    ELSE << <<Num(i), "POST_HEADLINE:", "h" \o ToString(i)>>,
            <<"POST_SUMMARY:", "p" \o ToString(i)>>,
            <<>> >> \o Posts(n, i + 1)

\* the reply of the grammar for the summaries body[1..n]
GrammarReply(body, withHead, withSocial) ==
    (IF withHead
     THEN << <<"HEADLINE:", "w1">>, <<>>, <<"COMBINED_SUMMARY:", "w2", "w3">>, <<>> >>
     ELSE <<>>)
    \o << <<"ARTICLE_SUMMARIES:">> >>
    \o Triples(body, 1)
    \o (IF withSocial
        THEN << <<"SOCIAL_POSTS:">> >> \o Posts(Len(body), 1) ELSE <<>>)

\* the well-formed replies that hold n triples
WellFormed(n) ==
    { GrammarReply(body, h, s) :
        body \in [1..n -> SummaryBodies], h \in BOOLEAN, s \in BOOLEAN }

Replies == FreeReplies \cup UNION {WellFormed(n) : n \in 1..MaxArticles}

----------------------------------------------------------------------------
(* The listing page of the link discovery is given below; while a parse    *)
(* runs it is empty.                                                       *)

LinkIdle ==
    /\ soup = <<>>
    /\ links = <<>>
    /\ strategy = 0
    /\ producer = <<0, 0>>
    /\ ran = {}

\* the parse of main: generate_digest is called without output_type, which
\* is "both" by default (summarizer.py lines 251 and 280)
ParseInit ==
    /\ response \in Replies
    /\ articles \in {ArticleList(n) : n \in 0..MaxArticles}
    /\ output_type = "both"
    /\ idx = 0
    /\ current_section = "none"
    /\ current_article = EmptyDict
    /\ current_post = EmptyDict
    /\ result = EmptyResult
    /\ raised = FALSE
    /\ formatted = <<>>
    /\ pc = "loop"
    /\ LinkIdle
    /\ ScrapeIdle
    /\ AppIdle
    /\ PayIdle

ParseNext == ParseLine \/ FinishParse \/ FormatDigest

ParseSpec == ParseInit /\ [][ParseNext]_vars

\* app.py line 213: the output types the form of /generate submits
OutputTypes == {"digest", "social", "both"}

\* the parse of generate: app.py line 256 hands the output type of the form
\* to generate_digest, which hands it to _parse_response (line 278)
StyleInit ==
    /\ response \in Replies
    /\ articles \in {ArticleList(n) : n \in 0..MaxArticles}
    /\ output_type \in OutputTypes
    /\ idx = 0
    /\ current_section = "none"
    /\ current_article = EmptyDict
    /\ current_post = EmptyDict
    /\ result = EmptyResult
    /\ raised = FALSE
    /\ formatted = <<>>
    /\ pc = "loop"
    /\ LinkIdle
    /\ ScrapeIdle
    /\ AppIdle
    /\ PayIdle

StyleSpec == StyleInit /\ [][ParseNext]_vars

----------------------------------------------------------------------------
(* Properties of the parser and the formatter, checked under ParseSpec *)

Returned == pc \in {"parsed", "formatted"}

DigestKeys == {"headline", "combined_summary", "article_summaries", "social_posts"}

HasUrlOf(rec, i) ==
    i <= Len(articles) /\ "url" \in DOMAIN rec /\ rec["url"] = articles[i]

\* C1: a well-formed grammar reply that holds N >= 1 numbered triples, parsed
\* with N input articles, yields exactly N article_summaries in reply order,
\* the i-th with the url of the i-th input article, whatever URL text the
\* reply holds.
C1_WellFormedReplyParses ==
    (/\ Returned
     /\ Len(articles) >= 1
     /\ Len(response) > 4 * Len(articles)   \* its length, before the costly test
     /\ response \in WellFormed(Len(articles)))
    => /\ Len(result.article_summaries) = Len(articles)
       /\ \A i \in 1..Len(result.article_summaries) :
            LET rec == result.article_summaries[i]
            IN  /\ "title" \in DOMAIN rec /\ rec["title"] = TitleOf(i)
                /\ HasUrlOf(rec, i)

\* a well-formed reply for two articles, URL text in a summary, has been parsed
C1_Witness ==
    /\ Returned
    /\ Len(articles) = 2
    /\ response \in WellFormed(2)
    /\ \E k \in 1..Len(response) : Contains(response[k], UrlToken)
    /\ Len(result.article_summaries) = 2

\* C2: the parser never raises: no line of any reply makes a statement of the
\* loop raise, and what it returns holds the four keys of a digest.
C2_ParserNeverRaises ==
    /\ ~raised
    /\ pc # "raised"
    /\ Returned => DOMAIN result = DigestKeys

\* a reply whose AUTHOR: line comes with no open record, followed by an
\* unprefixed line, has been parsed to the end
C2_Witness ==
    /\ Returned
    /\ response = << <<"ARTICLE_SUMMARIES:">>, <<"AUTHOR:", "a1">>, <<"w5", UrlToken>> >>
    /\ Len(result.article_summaries) = 1

\* C3: every summary of the article_summaries the parser returns has at most
\* MAX_SUMMARY_WORDS words.
C3_ParsedSummariesWithinLimit ==
    Returned =>
        \A i \in 1..Len(result.article_summaries) :
            LET rec == result.article_summaries[i]
            IN  "summary" \in DOMAIN rec => Len(rec["summary"]) <= MAX_SUMMARY_WORDS

\* C4 as claimed: after parsing, every record of article_summaries and of
\* social_posts carries the url of the input article at its position, also
\* when the reply holds more records than there are input articles.
C4_EveryRecordHasUrl ==
    Returned =>
        /\ \A i \in 1..Len(result.article_summaries) :
              HasUrlOf(result.article_summaries[i], i)
        /\ \A i \in 1..Len(result.social_posts) :
              HasUrlOf(result.social_posts[i], i)

UrlByPosition(recs) ==
    \A i \in 1..Len(recs) :
        IF i <= Len(articles) THEN HasUrlOf(recs[i], i)
        ELSE "url" \notin DOMAIN recs[i]

\* C4 as amended: after parsing, every record of article_summaries and of
\* social_posts at a position within the input article list carries the url
\* of the input article at that position; a record at a position beyond the
\* list carries no url.
C4_UrlByPositionWithinArticles ==
    Returned =>
        /\ UrlByPosition(result.article_summaries)
        /\ UrlByPosition(result.social_posts)

\* a reply with more article records and more post records than input articles
C4_Witness ==
    /\ Returned
    /\ Len(articles) >= 1
    /\ \/ Len(result.article_summaries) > Len(articles)
       \/ Len(result.social_posts) > Len(articles)

\* a line that starts with no grammar token and is no numbered TITLE: or
\* POST_HEADLINE: line
NoGrammarPrefix(line) ==
    /\ line # <<>>
    /\ ~StartsWithAny(line, GrammarTokens)
    /\ ~(Len(line) >= 2 /\ line[1] \in NumberTokens
         /\ line[2] \in {"TITLE:", "POST_HEADLINE:"})

\* C5: in the ARTICLES section, when the open article record has a summary and
\* the next non-blank line carries no grammar prefix, the line is appended to
\* that summary: no record is started or flushed and no text is dropped.
C5_ContinuationAppended ==
    [][ ( /\ pc = "loop" /\ idx < Len(response)
          /\ current_section = "articles"
          /\ "summary" \in DOMAIN current_article
          /\ NoGrammarPrefix(response[idx + 1]) )
        => /\ current_article' =
                Put(current_article, "summary",
                    current_article["summary"] \o response[idx + 1])
           /\ result' = result
           /\ current_section' = current_section ]_vars

\* the rendered summary of the i-th record: what follows the author on the
\* third of its four lines
ShownSummary(i) ==
    LET rec == result.article_summaries[i]
        head == 4 + (IF result.combined_summary # <<>> THEN 2 ELSE 0)
        body == formatted[head + 4 * (i - 1) + 3]
        author == Get(rec, "author", <<"Unknown", "Author">>)
        skip == IF author = <<>> THEN 1 ELSE Len(author)
    IN  SubSeq(body, skip + 1, Len(body))

\* C6: format_digest renders a summary of more than MAX_SUMMARY_WORDS words
\* as its first MAX_SUMMARY_WORDS words with "..." appended, and a summary of
\* at most MAX_SUMMARY_WORDS words unchanged, for every record.
C6_FormatEnforcesWordLimit ==
    pc = "formatted" =>
        /\ Len(formatted) =
              4 + (IF result.combined_summary # <<>> THEN 2 ELSE 0)
                + 4 * Len(result.article_summaries)
        /\ \A i \in 1..Len(result.article_summaries) :
              LET words == Get(result.article_summaries[i], "summary", <<>>)
                  shown == ShownSummary(i)
              IN  IF Len(words) > MAX_SUMMARY_WORDS
                  THEN /\ Len(shown) = MAX_SUMMARY_WORDS
                       /\ \A j \in 1..(MAX_SUMMARY_WORDS - 1) : shown[j] = words[j]
                       /\ shown[MAX_SUMMARY_WORDS] = words[MAX_SUMMARY_WORDS] \o "..."
                  ELSE shown = words

\* a digest with a summary over the limit and one of exactly the limit has
\* been formatted
C6_Witness ==
    /\ pc = "formatted"
    /\ \E i \in 1..Len(result.article_summaries) :
          /\ "summary" \in DOMAIN result.article_summaries[i]
          /\ Len(result.article_summaries[i]["summary"]) > MAX_SUMMARY_WORDS
    /\ \E i \in 1..Len(result.article_summaries) :
          /\ "summary" \in DOMAIN result.article_summaries[i]
          /\ Len(result.article_summaries[i]["summary"]) = MAX_SUMMARY_WORDS

----------------------------------------------------------------------------
(* scraper.py: URLs as sequences of characters *)

\* s[i:].startswith(p), i counted from 0
IsPrefixAt(p, s, i) ==
    /\ i + Len(p) <= Len(s)
    /\ \A k \in 1..Len(p) : s[i + k] = p[k]

\* p in s
IsSubstr(p, s) == \E i \in 0..(Len(s) - Len(p)) : IsPrefixAt(p, s, i)

\* the lower-case letter of each upper-case letter
LowerOf ==
    [ A |-> "a", B |-> "b", C |-> "c", D |-> "d", E |-> "e", F |-> "f",
      G |-> "g", H |-> "h", I |-> "i", J |-> "j", K |-> "k", L |-> "l",
      M |-> "m", N |-> "n", O |-> "o", P |-> "p", Q |-> "q", R |-> "r",
      S |-> "s", T |-> "t", U |-> "u", V |-> "v", W |-> "w", X |-> "x",
      Y |-> "y", Z |-> "z" ]

LowerChar(c) == IF c \in DOMAIN LowerOf THEN LowerOf[c] ELSE c

\* s.lower()
Lower(s) == [k \in 1..Len(s) |-> LowerChar(s[k])]

\* the index (from 1) of the first character of s at or after position i
\* that is in the set stop; Len(s) + 1 when there is none
RECURSIVE FindFrom(_, _, _)
FindFrom(s, i, stop) ==
    IF i > Len(s) THEN Len(s) + 1
    ELSE IF s[i] \in stop THEN i
    ELSE FindFrom(s, i + 1, stop)

HttpScheme == <<"h", "t", "t", "p", ":", "/", "/">>

\* the url has the scheme and the "//" of an http url
IsHttp(url) == IsPrefixAt(HttpScheme, url, 0)

\* the url starts with a scheme without "//" (mailto:, javascript:)
HasOpaqueScheme(url) ==
    \/ IsPrefixAt(<<"m", "a", "i", "l", "t", "o", ":">>, url, 0)
    \/ IsPrefixAt(<<"j", "a", "v", "a", "s", "c", "r", "i", "p", "t", ":">>, url, 0)

\* urlparse(url).netloc
Netloc(url) ==
    IF IsHttp(url)
    THEN SubSeq(url, Len(HttpScheme) + 1,
                FindFrom(url, Len(HttpScheme) + 1, {"/", "?", "#"}) - 1)
    ELSE <<>>

\* urlparse(url).path
UrlPath(url) ==
    IF IsHttp(url)
    THEN LET from == FindFrom(url, Len(HttpScheme) + 1, {"/", "?", "#"})
         IN  SubSeq(url, from, FindFrom(url, from, {"?", "#"}) - 1)
    ELSE IF HasOpaqueScheme(url)
    THEN LET from == FindFrom(url, 1, {":"}) + 1
         IN  SubSeq(url, from, FindFrom(url, from, {"?", "#"}) - 1)
    ELSE SubSeq(url, 1, FindFrom(url, 1, {"?", "#"}) - 1)

RECURSIVE SplitSlash(_, _)
\* [p for p in path.split("/") if p], from position i on
SplitSlash(path, i) ==
    IF i > Len(path) THEN <<>>
    ELSE IF path[i] = "/" THEN SplitSlash(path, i + 1)
    ELSE LET j == FindFrom(path, i, {"/"})
         IN  <<SubSeq(path, i, j - 1)>> \o SplitSlash(path, j)

PathParts(path) == SplitSlash(path, 1)

\* urljoin(base, href) for a base without query or fragment and an href that
\* is absolute, empty, a fragment, a root-relative path or a relative path
Urljoin(base, href) ==
    IF href = <<>> THEN base
    ELSE IF IsHttp(href) \/ HasOpaqueScheme(href) THEN href
    ELSE IF href[1] = "#" THEN base \o href
    ELSE IF href[1] = "/"
    THEN HttpScheme \o Netloc(base) \o href
    ELSE LET path == UrlPath(base)
             dir == CHOOSE j \in 0..Len(path) :
                        /\ j > 0 => path[j] = "/"
                        /\ \A k \in (j + 1)..Len(path) : path[k] # "/"
         IN  HttpScheme \o Netloc(base) \o
             (IF dir = 0 THEN <<"/">> ELSE SubSeq(path, 1, dir)) \o href

\* skip_patterns of _is_article_url
skip_patterns ==
    << <<"/", "t", "a", "g", "/">>,
       <<"/", "t", "a", "g", "s", "/">>,
       <<"/", "c", "a", "t", "e", "g", "o", "r", "y", "/">>,
       <<"/", "c", "a", "t", "e", "g", "o", "r", "i", "e", "s", "/">>,
       <<"/", "a", "u", "t", "h", "o", "r", "/">>,
       <<"/", "p", "a", "g", "e", "/">>,
       <<"/", "s", "e", "a", "r", "c", "h">>,
       <<"/", "l", "o", "g", "i", "n">>,
       <<"/", "s", "i", "g", "n", "u", "p">>,
       <<"/", "c", "o", "n", "t", "a", "c", "t">>,
       <<"/", "a", "b", "o", "u", "t">>,
       <<"/", "p", "r", "i", "v", "a", "c", "y">>,
       <<"/", "t", "e", "r", "m", "s">>,
       <<"/", "s", "u", "b", "s", "c", "r", "i", "b", "e">>,
       <<"/", "f", "e", "e", "d">>,
       <<"/", "r", "s", "s">>,
       <<"#">>,
       <<"j", "a", "v", "a", "s", "c", "r", "i", "p", "t", ":">>,
       <<"m", "a", "i", "l", "t", "o", ":">>,
       <<"/", "b", "l", "o", "g", "-", "t", "a", "g", "/">>,
       <<"/", "b", "l", "o", "g", "-", "c", "a", "t", "e", "g", "o", "r", "y", "/">>,
       <<"/", "b", "l", "o", "g", "-", "a", "u", "t", "h", "o", "r", "/">>,
       <<"-", "t", "a", "g", "/">>,
       <<"-", "c", "a", "t", "e", "g", "o", "r", "y", "/">>,
       <<"-", "a", "u", "t", "h", "o", "r", "/">> >>

\* _is_article_url without url.lower()
IsArticleUrl_CaseSensitive(url) ==
    ~\E k \in 1..Len(skip_patterns) : IsSubstr(skip_patterns[k], url)

\* _is_article_url
IsArticleUrl(url) ==
    ~\E k \in 1..Len(skip_patterns) : IsSubstr(skip_patterns[k], Lower(url))

----------------------------------------------------------------------------
(* The listing page *)

\* self.base_url: the listing page
base_url == <<"h", "t", "t", "p", ":", "/", "/", "a", ".", "i", "o", "/", "b", "l", "o", "g">>

\* the href attributes of the anchors of a page

\* /p/x: an article, two path segments
Href1 == <<"/", "p", "/", "x">>

\* /p/y: another article
Href2 == <<"/", "p", "/", "y">>

\* http://a.io/p/x: the first article, written absolute
Href3 == <<"h", "t", "t", "p", ":", "/", "/", "a", ".", "i", "o", "/", "p", "/", "x">>

\* http://xa.io/p/z: a host that embeds the base domain
Href4 == <<"h", "t", "t", "p", ":", "/", "/", "x", "a", ".", "i", "o", "/", "p", "/", "z">>

\* http://b.io/p/x: another site
Href5 == <<"h", "t", "t", "p", ":", "/", "/", "b", ".", "i", "o", "/", "p", "/", "x">>

\* /Tag/x: a tag page, upper case in the path
Href6 == <<"/", "T", "a", "g", "/", "x">>

\* /x: one path segment
Href7 == <<"/", "x">>

\* /blog: the blog index
Href8 == <<"/", "b", "l", "o", "g">>

\* mailto:m: a mail link
Href9 == <<"m", "a", "i", "l", "t", "o", ":", "m">>

\* #c: a fragment of the listing page
Href10 == <<"#", "c">>

\* An element of the page: its tag, its class attribute (one class, or none),
\* the hrefs of the anchors inside it in document order, and the region of
\* the page it lies in: the <main> element, the element of class content,
\* or neither.
BlockSet ==
    { [tag |-> <<"d", "i", "v">>, class |-> <<"p", "o", "s", "t", "-", "c", "a", "r", "d">>, hrefs |-> <<Href1>>, region |-> "none"],
      [tag |-> <<"d", "i", "v">>, class |-> <<"p", "o", "s", "t", "-", "c", "a", "r", "d">>, hrefs |-> <<Href5>>, region |-> "none"],
      [tag |-> <<"d", "i", "v">>, class |-> <<"m", "y", "-", "c", "a", "r", "d">>, hrefs |-> <<Href2, Href1>>, region |-> "none"],
      [tag |-> <<"d", "i", "v">>, class |-> <<"m", "y", "-", "c", "a", "r", "d">>, hrefs |-> <<Href4>>, region |-> "none"],
      [tag |-> <<"d", "i", "v">>, class |-> <<"m", "y", "-", "c", "a", "r", "d">>, hrefs |-> <<Href3>>, region |-> "none"],
      [tag |-> <<"a", "r", "t", "i", "c", "l", "e">>, class |-> <<>>, hrefs |-> <<Href1>>, region |-> "none"],
      [tag |-> <<"a", "r", "t", "i", "c", "l", "e">>, class |-> <<>>, hrefs |-> <<Href6>>, region |-> "none"],
      [tag |-> <<"d", "i", "v">>, class |-> <<"p", "o", "s", "t">>, hrefs |-> <<Href2>>, region |-> "main"],
      [tag |-> <<"d", "i", "v">>, class |-> <<"p", "o", "s", "t">>, hrefs |-> <<>>, region |-> "none"],
      [tag |-> <<"d", "i", "v">>, class |-> <<>>, hrefs |-> <<Href7, Href1>>, region |-> "main"],
      [tag |-> <<"d", "i", "v">>, class |-> <<>>, hrefs |-> <<Href8, Href2>>, region |-> "content"],
      [tag |-> <<"d", "i", "v">>, class |-> <<>>, hrefs |-> <<Href2, Href3, Href2>>, region |-> "none"],
      [tag |-> <<"d", "i", "v">>, class |-> <<>>, hrefs |-> <<Href9, Href10, Href4>>, region |-> "content"],
      [tag |-> <<"d", "i", "v">>, class |-> <<>>, hrefs |-> <<Href6, Href1>>, region |-> "main"] }

\* the listing pages: at most MaxBlocks elements
Pages == SeqsUpTo(BlockSet, MaxBlocks)

----------------------------------------------------------------------------
(* scraper.py: ArticleScraper._extract_article_links *)

card_selectors ==
    << [by |-> "class", v |-> <<"s", "e", "c", "t", "i", "o", "n", "-", "-", "l", "i", "s", "t", "i", "n", "g", "-", "-", "c", "a", "r", "d">>],
       [by |-> "class", v |-> <<"p", "o", "s", "t", "-", "c", "a", "r", "d">>],
       [by |-> "class", v |-> <<"a", "r", "t", "i", "c", "l", "e", "-", "c", "a", "r", "d">>],
       [by |-> "class", v |-> <<"e", "n", "t", "r", "y", "-", "c", "a", "r", "d">>],
       [by |-> "class", v |-> <<"b", "l", "o", "g", "-", "c", "a", "r", "d">>],
       [by |-> "class*", v |-> <<"b", "l", "o", "g", "-", "c", "a", "r", "d">>],
       [by |-> "class*", v |-> <<"p", "o", "s", "t", "-", "c", "a", "r", "d">>],
       [by |-> "class*", v |-> <<"a", "r", "t", "i", "c", "l", "e", "-", "c", "a", "r", "d">>],
       [by |-> "class*", v |-> <<"c", "a", "r", "d">>] >>

container_selectors ==
    << [by |-> "tag", v |-> <<"a", "r", "t", "i", "c", "l", "e">>],
       [by |-> "class", v |-> <<"p", "o", "s", "t">>],
       [by |-> "class", v |-> <<"e", "n", "t", "r", "y">>],
       [by |-> "class", v |-> <<"b", "l", "o", "g", "-", "p", "o", "s", "t">>],
       [by |-> "class", v |-> <<"a", "r", "t", "i", "c", "l", "e", "-", "i", "t", "e", "m">>],
       [by |-> "class*", v |-> <<"p", "o", "s", "t">>],
       [by |-> "class*", v |-> <<"a", "r", "t", "i", "c", "l", "e">>] >>

\* the element matches the CSS selector: a tag name, .class, or [class*='v']
Matches(selector, el) ==
    CASE selector.by = "tag" -> el.tag = selector.v
      [] selector.by = "class" -> el.class = selector.v
      [] selector.by = "class*" -> IsSubstr(selector.v, el.class)

\* soup.select(selector): the matching elements in document order
Select(selector) == SelectSeq(soup, LAMBDA el : Matches(selector, el))

\* urlparse(self.base_url).netloc
base_domain == Netloc(base_url)

\* x in lst
InList(x, lst) == \E i \in 1..Len(lst) : lst[i] = x

\* base_domain in urlparse(full_url).netloc
DomainMatches(domain, netloc) == IsSubstr(domain, netloc)

\* the filter of lines 189-191 without 'full_url not in links'
Accept_NoDedup(full_url, lst) ==
    /\ IsArticleUrl(full_url)
    /\ DomainMatches(base_domain, Netloc(full_url))

\* the filter of lines 189-191, 216-218 and 235-237
Accept(full_url, lst) ==
    /\ IsArticleUrl(full_url)
    /\ DomainMatches(base_domain, Netloc(full_url))
    /\ ~InList(full_url, lst)

RECURSIVE FirstAnchorLinks(_, _)
\* lines 184-192: for each card, its first anchor with an href
FirstAnchorLinks(els, lst) ==
    IF els = <<>> THEN lst
    ELSE LET el == Head(els)
             full_url == Urljoin(base_url, el.hrefs[1])
         IN  FirstAnchorLinks(Tail(els),
                 IF el.hrefs # <<>> /\ Accept(full_url, lst)
                 THEN Append(lst, full_url) ELSE lst)

RECURSIVE SelectorLoop_NoBreak(_, _, _)
\* the selector loop without 'if links: break': every selector adds its links
SelectorLoop_NoBreak(selectors, k, lst) ==
    IF k > Len(selectors) THEN [links |-> lst, sel |-> 0]
    ELSE LET got == FirstAnchorLinks(Select(selectors[k]), lst)
             rest == SelectorLoop_NoBreak(selectors, k + 1, got)
         IN  [links |-> rest.links,
              sel |-> IF lst = <<>> /\ got # <<>> THEN k ELSE rest.sel]

RECURSIVE SelectorLoop(_, _, _)
\* lines 181-194 and 208-221: the loop over the selectors from the k-th on;
\* sel is the selector the loop broke at, 0 when it ran to the end
SelectorLoop(selectors, k, lst) ==
    IF k > Len(selectors) THEN [links |-> lst, sel |-> 0]
    ELSE LET got == FirstAnchorLinks(Select(selectors[k]), lst)
         IN  IF got # <<>> THEN [links |-> got, sel |-> k]
             ELSE SelectorLoop(selectors, k + 1, got)

RECURSIVE AllHrefs(_)
\* find_all("a", href=True) over the elements: the hrefs in document order
AllHrefs(els) ==
    IF els = <<>> THEN <<>> ELSE Head(els).hrefs \o AllHrefs(Tail(els))

InRegion(r) == SelectSeq(soup, LAMBDA el : el.region = r)

\* line 225: soup.find("main") or soup.find(class_=[...]); <<>> models None
MainContent ==
    IF InRegion("main") # <<>> THEN InRegion("main") ELSE InRegion("content")

RECURSIVE MainLinks(_, _)
\* lines 227-238
MainLinks(hrefs, lst) ==
    IF hrefs = <<>> THEN lst
    ELSE LET full_url == Urljoin(base_url, Head(hrefs))
             path_parts == PathParts(UrlPath(full_url))
         IN  MainLinks(Tail(hrefs),
                 IF Len(path_parts) >= 1 /\ Accept(full_url, lst)
                 THEN Append(lst, full_url) ELSE lst)

IndexPaths == { <<<<"b", "l", "o", "g">>>>, <<<<"a", "r", "t", "i", "c", "l", "e", "s">>>>, <<<<"p", "o", "s", "t", "s">>>> }

RECURSIVE PageLinks(_, _)
\* lines 243-268
PageLinks(hrefs, lst) ==
    IF hrefs = <<>> THEN lst
    ELSE LET full_url == Urljoin(base_url, Head(hrefs))
             path_parts == PathParts(Lower(UrlPath(full_url)))
             take ==
                 /\ DomainMatches(base_domain, Netloc(full_url))
                 /\ IsArticleUrl(full_url)
                 /\ path_parts \notin IndexPaths
                 /\ Len(path_parts) >= 2
                 /\ ~InList(full_url, lst)
         IN  PageLinks(Tail(hrefs), IF take THEN Append(lst, full_url) ELSE lst)

\* Strategy 1, lines 168-194
Strategy1 ==
    /\ strategy = 1
    /\ LET r == SelectorLoop(card_selectors, 1, links)
       IN  /\ links' = r.links
           /\ producer' = IF r.links # <<>> THEN <<1, r.sel>> ELSE producer
    /\ ran' = ran \cup {1}
    /\ strategy' = 2
    /\ UNCHANGED <<soup, parseVars, scrapeVars, appVars, payVars>>

\* Strategy 2, lines 196-221
Strategy2 ==
    /\ strategy = 2
    /\ IF links = <<>>
       THEN LET r == SelectorLoop(container_selectors, 1, links)
            IN  /\ links' = r.links
                /\ producer' = IF r.links # <<>> THEN <<2, r.sel>> ELSE producer
                /\ ran' = ran \cup {2}
       ELSE UNCHANGED <<links, producer, ran>>
    /\ strategy' = 3
    /\ UNCHANGED <<soup, parseVars, scrapeVars, appVars, payVars>>

\* Strategy 3, lines 223-238
Strategy3 ==
    /\ strategy = 3
    /\ IF links = <<>>
       THEN LET got == MainLinks(AllHrefs(MainContent), links)
            IN  /\ links' = got
                /\ producer' = IF got # <<>> THEN <<3, 0>> ELSE producer
                /\ ran' = ran \cup {3}
       ELSE UNCHANGED <<links, producer, ran>>
    /\ strategy' = 4
    /\ UNCHANGED <<soup, parseVars, scrapeVars, appVars, payVars>>

\* Strategy 4 and the return, lines 240-270
Strategy4 ==
    /\ strategy = 4
    /\ IF links = <<>>
       THEN LET got == PageLinks(AllHrefs(soup), links)
            IN  /\ links' = got
                /\ producer' = IF got # <<>> THEN <<4, 0>> ELSE producer
                /\ ran' = ran \cup {4}
       ELSE UNCHANGED <<links, producer, ran>>
    /\ strategy' = 5
    /\ UNCHANGED <<soup, parseVars, scrapeVars, appVars, payVars>>

\* no parse runs while the links of a page are extracted
ParseIdle ==
    /\ response = <<>>
    /\ articles = <<>>
    /\ output_type = "none"
    /\ idx = 0
    /\ current_section = "none"
    /\ current_article = EmptyDict
    /\ current_post = EmptyDict
    /\ result = EmptyResult
    /\ raised = FALSE
    /\ formatted = <<>>
    /\ pc = "idle"

LinkInit ==
    /\ soup \in Pages
    /\ links = <<>>
    /\ strategy = 1
    /\ producer = <<0, 0>>
    /\ ran = {}
    /\ ParseIdle
    /\ ScrapeIdle
    /\ AppIdle
    /\ PayIdle

LinkNext == Strategy1 \/ Strategy2 \/ Strategy3 \/ Strategy4

LinkSpec == LinkInit /\ [][LinkNext]_vars

----------------------------------------------------------------------------
(* Properties of the link discovery, checked under LinkSpec *)

LinksReturned == strategy = 5

\* C7: every URL that link discovery returns has the domain of the listing
\* page; a link whose host only contains the base domain as a substring is
\* never returned.
C7_LinksOnBaseDomain ==
    LinksReturned => \A i \in 1..Len(links) : Netloc(links[i]) = base_domain

\* C8: no URL in the list of link discovery contains, case-insensitively, an
\* entry of the skip-pattern list of _is_article_url, whichever strategy
\* produced it.
C8_NoSkipPatternInLinks ==
    \A i \in 1..Len(links) :
        \A k \in 1..Len(skip_patterns) :
            ~IsSubstr(skip_patterns[k], Lower(links[i]))

\* a page with an anchor that a skip pattern rejects, whose links come from
\* the whole-page strategy
C8_Witness ==
    /\ LinksReturned
    /\ producer = <<4, 0>>
    /\ links # <<>>
    /\ \E el \in {soup[i] : i \in 1..Len(soup)} :
          \E h \in {el.hrefs[j] : j \in 1..Len(el.hrefs)} :
              /\ ~IsArticleUrl(Urljoin(base_url, h))
              /\ Netloc(Urljoin(base_url, h)) = base_domain

RECURSIVE FirstHrefs(_)
\* the first href of each element that has one, in document order
FirstHrefs(els) ==
    IF els = <<>> THEN <<>>
    ELSE (IF Head(els).hrefs # <<>> THEN <<Head(els).hrefs[1]>> ELSE <<>>)
         \o FirstHrefs(Tail(els))

\* the URLs the strategy and selector p looks at, in document order
Candidates(p) ==
    LET hrefs ==
          CASE p[1] = 1 -> FirstHrefs(Select(card_selectors[p[2]]))
            [] p[1] = 2 -> FirstHrefs(Select(container_selectors[p[2]]))
            [] p[1] = 3 -> AllHrefs(MainContent)
            [] p[1] = 4 -> AllHrefs(soup)
    IN  [i \in 1..Len(hrefs) |-> Urljoin(base_url, hrefs[i])]

\* the position at which x is first met in the sequence c
FirstIndex(c, x) == CHOOSE i \in 1..Len(c) : c[i] = x /\ \A j \in 1..(i - 1) : c[j] # x

\* C9: the list link discovery returns holds no URL twice, and its order is
\* the order in which each URL is first met in the document by the strategy
\* that produced it.
C9_NoDuplicatesInDiscoveryOrder ==
    /\ \A i, j \in 1..Len(links) : links[i] = links[j] => i = j
    /\ links # <<>> =>
         LET c == Candidates(producer)
         IN  /\ \A i \in 1..Len(links) : InList(links[i], c)
             /\ \A i, j \in 1..Len(links) :
                   i < j => FirstIndex(c, links[i]) < FirstIndex(c, links[j])

\* two or more links returned from candidates that hold a URL more than once
C9_Witness ==
    /\ LinksReturned
    /\ Len(links) >= 2
    /\ LET c == Candidates(producer)
       IN  \E i, j \in 1..Len(c) : i < j /\ c[i] = c[j] /\ InList(c[i], links)

\* what the k-th selector of a list yields on its own
Yield(selectors, k) == FirstAnchorLinks(Select(selectors[k]), <<>>)

\* what the first selector that yields a link yields
FirstYield(selectors) ==
    LET ys == [k \in 1..Len(selectors) |-> Yield(selectors, k)]
    IN  IF \E k \in 1..Len(selectors) : ys[k] # <<>>
        THEN ys[CHOOSE k \in 1..Len(selectors) :
                    ys[k] # <<>> /\ \A j \in 1..(k - 1) : ys[j] = <<>>]
        ELSE <<>>

\* what each strategy yields on its own
StrategyYield(s) ==
    CASE s = 1 -> FirstYield(card_selectors)
      [] s = 2 -> FirstYield(container_selectors)
      [] s = 3 -> MainLinks(AllHrefs(MainContent), <<>>)
      [] s = 4 -> PageLinks(AllHrefs(soup), <<>>)

\* C10: link discovery returns exactly the links of the first strategy, in
\* the order card-layout, container, main-content, whole-page, that yields a
\* link; a strategy runs only when every earlier one yielded none; inside the
\* card and container strategies the links are those of the first selector
\* that yields one.
C10_FirstYieldingStrategyWins ==
    LET y == [s \in 1..4 |-> StrategyYield(s)]
    IN  /\ \A s \in ran : \A t \in 1..(s - 1) : y[t] = <<>>
        /\ links # <<>> =>
              /\ links = y[producer[1]]
              /\ \A t \in 1..(producer[1] - 1) : y[t] = <<>>
              /\ producer[1] \in {1, 2} =>
                    LET sels == IF producer[1] = 1 THEN card_selectors
                                ELSE container_selectors
                    IN  /\ producer[2] \in 1..Len(sels)
                        /\ links = Yield(sels, producer[2])
                        /\ \A j \in 1..(producer[2] - 1) : Yield(sels, j) = <<>>
        /\ LinksReturned =>
              /\ \A s \in 1..4 :
                    (s \notin ran) => \E t \in 1..(s - 1) : y[t] # <<>>
              /\ (links = <<>>) => \A s \in 1..4 : y[s] = <<>>

\* the card strategy won at one selector although a later selector and the
\* whole-page strategy would have yielded other links
C10_Witness ==
    /\ LinksReturned
    /\ producer[1] = 1
    /\ \E k \in (producer[2] + 1)..Len(card_selectors) :
          Yield(card_selectors, k) \notin {<<>>, links}
    /\ StrategyYield(4) \notin {<<>>, links}

----------------------------------------------------------------------------
----------------------------------------------------------------------------
(* scraper.py: the texts of an article page                                *)
(*                                                                         *)
(* A title or an author text is a record [body, pad]: the characters of    *)
(* body followed by pad filler characters "z", a letter that none of the   *)
(* patterns of the code contains, so every test and edit of the code acts  *)
(* on body and the filler only adds to the length.  The text of a content  *)
(* element or of a paragraph is its number of characters: the code reads   *)
(* only the length of a content.  An element's text is the text            *)
(* _extract_text returns for it, whitespace already collapsed.             *)

(* Program constants *)

MAX_RETRIES == 3
RETRY_DELAY == 2

Str(cs, fill) == [body |-> cs, pad |-> fill]

\* len(s)
PyLen(s) == Len(s.body) + s.pad

\* s[:n]
Slice(s, n) ==
    IF n >= PyLen(s) THEN s
    ELSE IF n <= Len(s.body) THEN Str(SubSeq(s.body, 1, n), 0)
    ELSE Str(s.body, n - Len(s.body))

RECURSIVE ReplaceAll(_, _, _)
\* s.replace(p, ""), from position i on: the occurrences left to right
ReplaceAll(s, p, i) ==
    IF i > Len(s) THEN <<>>
    ELSE IF IsPrefixAt(p, s, i - 1) THEN ReplaceAll(s, p, i + Len(p))
    ELSE <<s[i]>> \o ReplaceAll(s, p, i + 1)

RECURSIVE ReplaceEach(_, _, _)
\* the chained replace calls of lines 91-93; "".replace(p, "") is ""
ReplaceEach(s, ps, k) ==
    IF k > Len(ps) THEN s
    ELSE LET cut == ReplaceAll(s, ps[k], 1)
         IN  IF Len(cut) = 0 THEN <<>> ELSE ReplaceEach(cut, ps, k + 1)

\* lines 91-93, in the order of the calls
prefix_patterns ==
    << <<"B", "y", " ">>,
       <<"b", "y", " ">>,
       <<"W", "r", "i", "t", "t", "e", "n", " ", "b", "y", " ">>,
       <<"w", "r", "i", "t", "t", "e", "n", " ", "b", "y", " ">>,
       <<"A", "u", "t", "h", "o", "r", ":", " ">>,
       <<"a", "u", "t", "h", "o", "r", ":", " ">> >>

\* lines 96-115
remove_patterns ==
    << <<"A", "b", "o", "u", "t", " ", "t", "h", "e", " ", "A", "u", "t", "h", "o", "r">>,
       <<"A", "b", "o", "u", "t", " ", "t", "h", "e", " ", "A", "u", "t", "h", "o", "r", "s">>,
       <<"A", "b", "o", "u", "t">>,
       <<"F", "o", "l", "l", "o", "w", " ", "o", "n", " ", "T", "w", "i", "t", "t", "e", "r">>,
       <<"F", "o", "l", "l", "o", "w", " ", "o", "n", " ", "X">>,
       <<"F", "o", "l", "l", "o", "w">>,
       <<"S", "u", "b", "s", "c", "r", "i", "b", "e">>,
       <<"S", "h", "a", "r", "e">>,
       <<"T", "w", "i", "t", "t", "e", "r">>,
       <<"F", "a", "c", "e", "b", "o", "o", "k">>,
       <<"L", "i", "n", "k", "e", "d", "I", "n">>,
       <<"E", "m", "a", "i", "l">>,
       <<"M", "o", "r", "e", " ", "a", "r", "t", "i", "c", "l", "e", "s">>,
       <<"V", "i", "e", "w", " ", "a", "l", "l", " ", "p", "o", "s", "t", "s">>,
       <<"R", "e", "a", "d", " ", "m", "o", "r", "e">>,
       <<"C", "o", "n", "t", "a", "c", "t">>,
       <<" ", "|", " ">>,
       <<" ", "-", " ">> >>

RECURSIVE InsertByLen(_, _)
\* p put after the last pattern of sorted that is at least as long
InsertByLen(p, sorted) ==
    IF sorted = <<>> THEN <<p>>
    ELSE IF Len(Head(sorted)) >= Len(p)
         THEN <<Head(sorted)>> \o InsertByLen(p, Tail(sorted))
    ELSE <<p>> \o sorted

RECURSIVE SortByLen(_, _, _)
\* line 118: remove_patterns.sort(key=len, reverse=True), a stable sort
SortByLen(ps, k, sorted) ==
    IF k > Len(ps) THEN sorted
    ELSE SortByLen(ps, k + 1, InsertByLen(ps[k], sorted))

sorted_patterns == SortByLen(remove_patterns, 1, <<>>)

\* lower_author.find(lower_pattern), 0-based; the pattern occurs
Find(p, s) ==
    CHOOSE i \in 0..(Len(s) - Len(p)) :
        /\ IsPrefixAt(p, s, i)
        /\ \A j \in 0..(i - 1) : ~IsPrefixAt(p, s, j)

RECURSIVE RemoveWhile(_, _)
\* lines 122-127: cut the first occurrence, whatever its case, until none
RemoveWhile(s, p) ==
    IF ~IsSubstr(Lower(p), Lower(s)) THEN s
    ELSE LET at == Find(Lower(p), Lower(s))
         IN  RemoveWhile(SubSeq(s, 1, at) \o SubSeq(s, at + Len(p) + 1, Len(s)), p)

RECURSIVE RemoveEach(_, _, _)
\* the for loop of lines 120-127; an empty text has nothing left to cut
RemoveEach(s, ps, k) ==
    IF k > Len(ps) THEN s
    ELSE LET cut == RemoveWhile(s, ps[k])
         IN  IF Len(cut) = 0 THEN <<>> ELSE RemoveEach(cut, ps, k + 1)

RECURSIVE LStrip(_, _)
\* the characters of chars removed from the front of s
LStrip(s, chars) ==
    IF s # <<>> /\ Head(s) \in chars THEN LStrip(Tail(s), chars) ELSE s

RECURSIVE RStrip(_, _)
RStrip(s, chars) ==
    IF s # <<>> /\ s[Len(s)] \in chars
    THEN RStrip(SubSeq(s, 1, Len(s) - 1), chars) ELSE s

\* s.strip(chars) of the text body + filler: the filler is not in chars
StripChars(txt, strip) ==
    IF txt.pad > 0 THEN Str(LStrip(txt.body, strip), txt.pad)
    ELSE Str(RStrip(LStrip(txt.body, strip), strip), 0)

RECURSIVE Squeeze(_)
\* every run of spaces of s made one space
Squeeze(s) ==
    IF Len(s) < 2 THEN s
    ELSE IF s[1] = " " /\ s[2] = " " THEN Squeeze(Tail(s))
    ELSE <<s[1]>> \o Squeeze(Tail(s))

\* " ".join(s.split())
Collapse(raw) == StripChars(Str(Squeeze(raw.body), raw.pad), {" "})

\* line 144: the characters of author.strip(".,;:-|/\\\"'")
punctuation == {".", ",", ";", ":", "-", "|", "/", "\\", "\"", "'"}

\* line 136
separators ==
    << <<",">>, <<" ", "a", "n", "d", " ">>, <<" ", "&", " ">>, <<".">> >>

RECURSIVE FirstPart(_, _)
\* lines 136-141: cut at the first separator whose leading part qualifies
FirstPart(s, k) ==
    IF k > Len(separators) THEN s
    ELSE IF IsSubstr(separators[k], s.body)
         THEN LET part == StripChars(
                            Str(SubSeq(s.body, 1, Find(separators[k], s.body)), 0),
                            {" "})
              IN  IF PyLen(part) > 0 /\ PyLen(part) < 50 THEN part
                  ELSE FirstPart(s, k + 1)
    ELSE FirstPart(s, k + 1)

\* _clean_author_name, lines 85-146
CleanAuthorName(author) ==
    IF PyLen(author) = 0 THEN author
    ELSE LET a1 == ReplaceEach(author.body, prefix_patterns, 1)
             a2 == RemoveEach(a1, sorted_patterns, 1)
             a3 == Collapse(Str(a2, author.pad))
             a4 == IF PyLen(a3) > 60 THEN FirstPart(a3, 1) ELSE a3
             a5 == StripChars(a4, punctuation)
         IN  StripChars(a5, {" "})

----------------------------------------------------------------------------
(* scraper.py: ArticleScraper._scrape_article_page                         *)
(*                                                                         *)
(* A document is given by the element soup.select_one returns for each     *)
(* selector that matches it: the element's text and the lengths of the     *)
(* texts of its <p> descendants.  soup.find("article"), soup.find("main")  *)
(* and soup.find(class_="post") are the elements of the selectors          *)
(* "article", "main" and ".post".  raises tells whether reading the        *)
(* document throws.                                                        *)

NoText == Str(<<>>, 0)

Elem(t, ps) == [text |-> t, paras |-> ps]

\* lines 281-289
title_selectors ==
    << "h1.entry-title", "h1.post-title", "h1.article-title", "article h1",
       ".post h1", "main h1", "h1" >>

\* lines 299-307
author_selectors ==
    << ".author-name", ".post-author", ".entry-author", ".byline",
       "[rel='author']", ".author", "[class*='author']" >>

\* lines 322-343
content_selectors ==
    << ".blog-content__copy", ".w-richtext", ".entry-content", ".post-content",
       ".article-content", ".post-body", ".blog-post-content", ".article-body",
       ".story-content", ".post__content", ".content-body", "article .content",
       "[class*='post-content']", "[class*='article-content']",
       "[class*='entry-content']", "[class*='blog-content']", "article" >>

\* soup.select_one(selector) is not None
Matched(doc, selector) == selector \in DOMAIN doc.sel

RECURSIVE TitleLoop(_, _, _)
\* lines 290-295, from selector k on; title is the value assigned so far
TitleLoop(doc, k, title) ==
    IF k > Len(title_selectors) THEN title
    ELSE IF Matched(doc, title_selectors[k])
         THEN LET t == doc.sel[title_selectors[k]].text
              IN  IF PyLen(t) > 0 /\ PyLen(t) < 300 THEN t
                  ELSE TitleLoop(doc, k + 1, t)
    ELSE TitleLoop(doc, k + 1, title)

RECURSIVE AuthorLoop(_, _, _)
\* lines 308-314
AuthorLoop(doc, k, author) ==
    IF k > Len(author_selectors) THEN author
    ELSE IF Matched(doc, author_selectors[k])
         THEN LET a == CleanAuthorName(doc.sel[author_selectors[k]].text)
              IN  IF PyLen(a) > 0 /\ PyLen(a) < 100 THEN a
                  ELSE AuthorLoop(doc, k + 1, a)
    ELSE AuthorLoop(doc, k + 1, author)

UnknownAuthor == Str(<<"U", "n", "k", "n", "o", "w", "n", " ", "A", "u", "t", "h", "o", "r">>, 0)

\* lines 298-317
AuthorOf(doc) ==
    LET a == AuthorLoop(doc, 1, NoText)
    IN  IF PyLen(a) = 0 THEN UnknownAuthor ELSE a

RECURSIVE SumSeq(_)
SumSeq(ns) == IF ns = <<>> THEN 0 ELSE Head(ns) + SumSeq(Tail(ns))

\* len(" ".join(t for t in texts if t)), texts given by their lengths
JoinLen(lens) ==
    LET kept == SelectSeq(lens, LAMBDA n : n > 0)
    IN  IF kept = <<>> THEN 0 ELSE SumSeq(kept) + Len(kept) - 1

\* lines 349-353: the text of a content element
ElemContent(el) ==
    IF el.paras # <<>> THEN JoinLen(el.paras) ELSE PyLen(el.text)

RECURSIVE ContentLoop(_, _, _)
\* lines 345-356; a content is its length
ContentLoop(doc, k, content) ==
    IF k > Len(content_selectors) THEN content
    ELSE IF Matched(doc, content_selectors[k])
         THEN LET c == ElemContent(doc.sel[content_selectors[k]])
              IN  IF c > 0 /\ c > 200 THEN c
                  ELSE ContentLoop(doc, k + 1, c)
    ELSE ContentLoop(doc, k + 1, content)

\* lines 359-363
Fallback(doc, content) ==
    IF content = 0 \/ content < 200
    THEN IF Matched(doc, "article") THEN JoinLen(doc.sel["article"].paras)
         ELSE IF Matched(doc, "main") THEN JoinLen(doc.sel["main"].paras)
         ELSE IF Matched(doc, ".post") THEN JoinLen(doc.sel[".post"].paras)
         ELSE content
    ELSE content

ContentOf(doc) == Fallback(doc, ContentLoop(doc, 1, 0))

None == [kind |-> "None", title |-> NoText, author |-> NoText, content |-> 0, url |-> 0]

Raise == [kind |-> "raise", title |-> NoText, author |-> NoText, content |-> 0, url |-> 0]

\* title[:500] and author[:100] of lines 369-370 without the slices
Article_NoClamp(title, author, content, url) ==
    [kind |-> "Article", title |-> title, author |-> author,
     content |-> IF content < 10000 THEN content ELSE 10000, url |-> url]

\* lines 368-373
Article(title, author, content, url) ==
    [kind |-> "Article", title |-> Slice(title, 500), author |-> Slice(author, 100),
     content |-> IF content < 10000 THEN content ELSE 10000, url |-> url]

\* lines 279-373: the body of the try block once the page is fetched
Extract(doc, url) ==
    IF doc.raises THEN Raise
    ELSE LET title == TitleLoop(doc, 1, NoText)
             content == ContentOf(doc)
         IN  IF PyLen(title) = 0 \/ content = 0 \/ content < 100 THEN None
             ELSE Article(title, AuthorOf(doc), content, url)

\* lines 274 and 375-377 with 'raise' in the handler
CatchAll_Reraise(r) == r

\* lines 274 and 375-377: try ... except Exception: return None
CatchAll(r) == IF r.kind = "raise" THEN None ELSE r

----------------------------------------------------------------------------
(* scraper.py: ArticleScraper._check_robots_txt                            *)
(*                                                                         *)
(* The answer to GET /robots.txt is [error, status, lines]: error tells    *)
(* that session.get raised a requests.RequestException, lines is           *)
(* response.text split on "\n", each line a sequence of characters.        *)

Min(a, b) == IF a < b THEN a ELSE b

\* range(i + 1, min(i + 5, len(lines))) for the line at position at = i + 1
\* of a body of n lines, as positions counted from 1
Window(at, n) == (at + 1)..Min(at + 4, n)

\* lines 71-72 with 'return False' in the handler, the body scan left out
CheckRobotsTxt_DenyOnError(resp) == ~resp.error

\* lines 55-72
CheckRobotsTxt(resp) ==
    IF resp.error THEN TRUE
    ELSE IF resp.status = 200
         THEN LET lines == [k \in 1..Len(resp.lines) |-> Lower(resp.lines[k])]
                  disallow == <<"d", "i", "s", "a", "l", "l", "o", "w", ":", " ", "/">>
                  agent == <<"u", "s", "e", "r", "-", "a", "g", "e", "n", "t", ":", " ", "*">>
              IN  IF /\ \E k \in 1..Len(lines) : IsSubstr(disallow, lines[k])
                     /\ \E k \in 1..Len(lines) : IsSubstr(agent, lines[k])
                  THEN ~\E at \in 1..Len(lines) :
                          /\ IsSubstr(agent, lines[at])
                          /\ \E j \in Window(at, Len(lines)) :
                                StripChars(Str(lines[j], 0), {" "}).body = disallow
                  ELSE TRUE
    ELSE TRUE

\* one call of _check_robots_txt
CheckRobots ==
    /\ spc = "robots"
    /\ allowed' = Append(allowed, CheckRobotsTxt(robots_txt))
    /\ spc' = "main"
    /\ UNCHANGED <<robots_txt, listing, site, count, article_links, link_i,
                   scraped, attempt, fetch_log, fetched, attempted, naps,
                   outcome, parseVars, linkVars, appVars, payVars>>

----------------------------------------------------------------------------
(* scraper.py: ArticleScraper._fetch_page and scrape_articles              *)
(*                                                                         *)
(* A page is [fails, doc]: its first `fails` requests raise a              *)
(* requests.RequestException (timeout, connection error, 4xx/5xx status),  *)
(* the next one answers doc.  The url of the listing page is 0, the url of *)
(* the j-th discovered link is j.                                          *)

\* line 50 without the factor (attempt + 1)
Backoff_Constant(k) == RETRY_DELAY

\* line 50: the argument of time.sleep, attempt counted from 0
Backoff(k) == RETRY_DELAY * (k + 1)

\* line 52: the RuntimeError, by the url and the attempt count it names
FetchError(url) == [kind |-> "RuntimeError", url |-> url, attempts |-> MAX_RETRIES]

\* line 47
Soup(url, n) == [kind |-> "soup", url |-> url, attempts |-> n]

NoFetch == [kind |-> "none", url |-> 0, attempts |-> 0]

Running == [kind |-> "running", articles |-> <<>>, error |-> ""]

Raised(msg) == [kind |-> "raised", articles |-> <<>>, error |-> msg]

\* lst[:n]
FirstN(lst, n) ==
    IF n >= 0 THEN SubSeq(lst, 1, Min(n, Len(lst)))
    ELSE SubSeq(lst, 1, Len(lst) + n)

\* lines 404-406 without the break
KeepGoing_NoBreak(k, lst, got, n) == k <= Len(FirstN(lst, n * 2))

\* lines 404-406: the loop runs its body for the k-th link
KeepGoing(k, lst, got, n) ==
    /\ k <= Len(FirstN(lst, n * 2))
    /\ ~(Len(got) >= n)

\* lines 412-413 with 'articles = [article]'
Accumulate_Replace(got, r) == IF r.kind = "Article" THEN <<r>> ELSE got

\* lines 412-413
Accumulate(got, r) == IF r.kind = "Article" THEN Append(got, r) ELSE got

\* line 419 alone
Result_NoCheck(got) == [kind |-> "returned", articles |-> got, error |-> ""]

\* lines 416-419
Result(got) ==
    IF got = <<>> THEN Raised("Failed to scrape any articles")
    ELSE [kind |-> "returned", articles |-> got, error |-> ""]

SetLast(lst, how) == [lst EXCEPT ![Len(lst)].got = how]

\* the url and the page of the _fetch_page call in progress
CurrentUrl == IF spc = "main" THEN 0 ELSE article_links[link_i]

CurrentPage == IF spc = "main" THEN listing ELSE site[article_links[link_i]]

\* lines 411-414 once _scrape_article_page has given r for the link
AfterPage(r, how) ==
    IF r.kind = "raise"
    THEN /\ outcome' = Raised("propagated")
         /\ spc' = "done"
         /\ attempted' = SetLast(attempted, how)
         /\ UNCHANGED <<scraped, naps, link_i>>
    ELSE /\ scraped' = Accumulate(scraped, r)
         /\ naps' = IF r.kind = "Article" THEN Append(naps, r.url) ELSE naps
         /\ attempted' = SetLast(attempted, how)
         /\ link_i' = link_i + 1
         /\ spc' = "loop"
         /\ UNCHANGED outcome

\* lines 43-52: one iteration of the retry loop, for the listing page
\* (line 387) or for an article page (line 275)
FetchPage ==
    /\ spc \in {"main", "article"}
    /\ IF attempt >= CurrentPage.fails
       THEN \* lines 45-47
            /\ fetch_log' = Append(fetch_log, <<"get", CurrentUrl>>)
            /\ fetched' = Soup(CurrentUrl, attempt + 1)
            /\ spc' = IF spc = "main" THEN "links" ELSE "extract"
            /\ UNCHANGED <<attempt, outcome, scraped, naps, attempted, link_i>>
       ELSE IF attempt < MAX_RETRIES - 1
       THEN \* lines 48-50
            /\ fetch_log' = fetch_log \o << <<"get", CurrentUrl>>,
                                           <<"sleep", Backoff(attempt)>> >>
            /\ attempt' = attempt + 1
            /\ UNCHANGED <<fetched, spc, outcome, scraped, naps, attempted, link_i>>
       ELSE \* lines 51-52; line 387 lets the error out, line 375 catches it
            /\ fetch_log' = Append(fetch_log, <<"get", CurrentUrl>>)
            /\ fetched' = FetchError(CurrentUrl)
            /\ UNCHANGED attempt
            /\ IF spc = "main"
               THEN /\ outcome' = Raised("Failed to fetch")
                    /\ spc' = "done"
                    /\ UNCHANGED <<scraped, naps, attempted, link_i>>
               ELSE AfterPage(CatchAll(Raise), "fetch failed")
    /\ UNCHANGED <<robots_txt, listing, site, count, allowed, article_links,
                   parseVars, linkVars, appVars, payVars>>

\* lines 394-397: the links of the listing page; their discovery is
\* _extract_article_links
ExtractLinks ==
    /\ spc = "links"
    /\ article_links' = [j \in 1..listing.links |-> j]
    /\ IF listing.links = 0
       THEN /\ outcome' = Raised("No article links found")
            /\ spc' = "done"
            /\ UNCHANGED link_i
       ELSE /\ link_i' = 1
            /\ spc' = "loop"
            /\ UNCHANGED outcome
    /\ UNCHANGED <<robots_txt, listing, site, count, allowed, scraped, attempt,
                   fetch_log, fetched, attempted, naps, parseVars, linkVars,
                   appVars, payVars>>

\* lines 404-411 and 272-275: the loop takes the next link and calls
\* _scrape_article_page, which calls _fetch_page
NextCandidate ==
    /\ spc = "loop"
    /\ KeepGoing(link_i, article_links, scraped, count)
    /\ attempted' = Append(attempted, [link |-> article_links[link_i], got |-> "pending"])
    /\ attempt' = 0
    /\ fetch_log' = <<>>
    /\ fetched' = NoFetch
    /\ spc' = "article"
    /\ UNCHANGED <<robots_txt, listing, site, count, allowed, article_links,
                   link_i, scraped, naps, outcome, parseVars, linkVars, appVars, payVars>>

\* lines 279-377 and 412-414: the page is read, the article kept
ExtractArticle ==
    /\ spc = "extract"
    /\ LET r == CatchAll(Extract(CurrentPage.doc, CurrentUrl))
           thrown == Extract(CurrentPage.doc, CurrentUrl).kind = "raise"
       IN  AfterPage(r, IF thrown THEN "raised"
                        ELSE IF r.kind = "Article" THEN "article" ELSE "none")
    /\ UNCHANGED <<robots_txt, listing, site, count, allowed, article_links,
                   attempt, fetch_log, fetched, parseVars, linkVars, appVars, payVars>>

\* lines 416-419, once the loop has ended
Return ==
    /\ spc = "loop"
    /\ ~KeepGoing(link_i, article_links, scraped, count)
    /\ outcome' = Result(scraped)
    /\ spc' = "done"
    /\ UNCHANGED <<robots_txt, listing, site, count, allowed, article_links,
                   link_i, scraped, attempt, fetch_log, fetched, attempted,
                   naps, parseVars, linkVars, appVars, payVars>>

----------------------------------------------------------------------------
(* The pages the scraper meets *)

MaxLinks == 5        \* most links of a listing page
MaxCount == 3        \* largest count asked of scrape_articles
MaxRobotsLines == 6  \* most lines of a robots.txt body

P(n) == Elem(NoText, <<n>>)

\* the h1 elements of a page: what each title selector that matches gives
TitleParts ==
    { <<>>,
      "h1" :> Elem(Str(<<"t", "1">>, 0), <<>>),
      "h1" :> Elem(NoText, <<>>),
      "h1" :> Elem(Str(<<"t", "1">>, 297), <<>>),
      "h1" :> Elem(Str(<<"t", "1">>, 298), <<>>),
      ("h1.entry-title" :> Elem(Str(<<"t", "2">>, 598), <<>>)) @@ ("h1" :> Elem(Str(<<"t", "2">>, 598), <<>>)),
      ("h1.entry-title" :> Elem(Str(<<"t", "2">>, 400), <<>>)) @@ ("h1" :> Elem(Str(<<"t", "2">>, 400), <<>>)),
      ("h1.post-title" :> Elem(Str(<<"t", "2">>, 400), <<>>)) @@ ("main h1" :> Elem(Str(<<"t", "1">>, 0), <<>>))
         @@ ("h1" :> Elem(Str(<<"t", "1">>, 0), <<>>)) @@ ("main" :> Elem(NoText, <<>>)),
      ("h1.article-title" :> Elem(NoText, <<>>)) @@ ("h1" :> Elem(NoText, <<>>)) }

\* the author elements of a page
AuthorParts ==
    { <<>>,
      ".byline" :> Elem(Str(<<"B", "y", " ", "A", "n", "n", " ", "L", "e", "e">>, 0), <<>>),
      (".author" :> Elem(Str(<<"F", "o", "l", "l", "o", "w">>, 0), <<>>))
         @@ ("[class*='author']" :> Elem(Str(<<"F", "o", "l", "l", "o", "w">>, 0), <<>>)),
      (".author-name" :> Elem(Str(<<"A", "n", "n">>, 120), <<>>))
         @@ ("[class*='author']" :> Elem(Str(<<"A", "n", "n">>, 120), <<>>)),
      (".post-author" :> Elem(Str(<<"A", "n", "n">>, 97), <<>>)) @@ (".byline" :> Elem(Str(<<"B", "o", "b">>, 0), <<>>))
         @@ ("[class*='author']" :> Elem(Str(<<"A", "n", "n">>, 97), <<>>)),
      ".byline" :> Elem(Str(<<"A", "n", "n", " ", "L", "e", "e", ",", " ", "E", "d", "i", "t", "o", "r">>, 60), <<>>) }

\* the content elements of a page
ContentParts ==
    { <<>>,
      (".entry-content" :> Elem(NoText, <<150, 150>>))
         @@ ("[class*='entry-content']" :> Elem(NoText, <<150, 150>>)),
      "article" :> P(99),
      "article" :> P(100),
      ".post-body" :> Elem(Str(<<>>, 150), <<>>),
      (".post-body" :> Elem(Str(<<>>, 150), <<>>)) @@ ("main" :> Elem(Str(<<>>, 150), <<>>)),
      ".w-richtext" :> Elem(NoText, <<6000, 5000>>),
      (".post-content" :> Elem(NoText, <<0, 0>>))
         @@ ("[class*='post-content']" :> Elem(NoText, <<0, 0>>))
         @@ ("article" :> Elem(NoText, <<50, 0, 49>>)),
      ".article-body" :> P(200),
      ("article .content" :> P(120)) @@ ("article" :> Elem(NoText, <<120, 90>>)),
      ".story-content" :> P(9999),
      ".story-content" :> P(10000) }

Doc(parts) == [raises |-> FALSE, sel |-> parts]

Docs == {Doc(c @@ t @@ a) : c \in ContentParts, t \in TitleParts, a \in AuthorParts}

GoodDoc == Doc(("h1" :> Elem(Str(<<"t", "1">>, 0), <<>>)) @@ ("article" :> P(100)))

ThinDoc == Doc(("h1" :> Elem(Str(<<"t", "1">>, 0), <<>>)) @@ ("article" :> P(99)))

RaisingDoc == [raises |-> TRUE, sel |-> <<>>]

Page(n, doc) == [fails |-> n, doc |-> doc]

\* an article, a page that never answers, a page without an article, a
\* page whose reading throws
SmallPages ==
    {Page(0, GoodDoc), Page(MAX_RETRIES, GoodDoc), Page(0, ThinDoc), Page(0, RaisingDoc)}

Pages1 ==
    SmallPages \cup {Page(0, d) : d \in Docs}
               \cup {Page(n, d) : n \in 1..(MAX_RETRIES + 1), d \in {GoodDoc, ThinDoc}}

Listings ==
    {l \in [fails : 0..MAX_RETRIES, links : 0..MaxLinks] : l.fails > 0 => l.links <= 1}

\* the sites of a listing page: every page behind a single link, the small
\* pages behind the links of a longer list
Sites(l) ==
    IF l.links = 1 /\ l.fails = 0 THEN [1..1 -> Pages1] ELSE [1..l.links -> SmallPages]

RobotsAnswer(err, status, lines) == [error |-> err, status |-> status, lines |-> lines]

agent_line == <<"U", "s", "e", "r", "-", "a", "g", "e", "n", "t", ":", " ", "*">>

disallow_line == <<"D", "i", "s", "a", "l", "l", "o", "w", ":", " ", "/">>

disallow_padded == <<" ", "d", "i", "s", "a", "l", "l", "o", "w", ":", " ", "/", " ", " ">>

disallow_tmp == <<"D", "i", "s", "a", "l", "l", "o", "w", ":", " ", "/", "t", "m", "p">>

RobotsLines == {agent_line, disallow_line, disallow_padded, <<>>, disallow_tmp}

Deny == RobotsAnswer(FALSE, 200, <<agent_line, disallow_line>>)

\* the answers a scrape meets: a refusal, no file, no answer
RobotsSmall ==
    { Deny,
      RobotsAnswer(FALSE, 404, <<agent_line, disallow_line>>),
      RobotsAnswer(TRUE, 0, <<>>) }

\* every body of robots.txt, served with status 200
RobotsBodies ==
    {RobotsAnswer(FALSE, 200, b) : b \in SeqsUpTo(RobotsLines, MaxRobotsLines)}

ScrapeStart ==
    /\ allowed = <<>>
    /\ article_links = <<>>
    /\ link_i = 0
    /\ scraped = <<>>
    /\ attempt = 0
    /\ fetch_log = <<>>
    /\ fetched = NoFetch
    /\ attempted = <<>>
    /\ naps = <<>>
    /\ outcome = Running
    /\ spc = "robots"
    /\ ParseIdle
    /\ LinkIdle
    /\ AppIdle
    /\ PayIdle

ScrapeInit ==
    /\ robots_txt \in RobotsSmall
    /\ listing \in Listings
    /\ site \in Sites(listing)
    /\ count \in (0 - 1)..MaxCount
    /\ ScrapeStart

ScrapeNext ==
    CheckRobots \/ FetchPage \/ ExtractLinks \/ NextCandidate \/ ExtractArticle \/ Return

ScrapeSpec == ScrapeInit /\ [][ScrapeNext]_vars

\* _check_robots_txt on every body, the listing page never answering
RobotsInit ==
    /\ robots_txt \in RobotsBodies
    /\ listing = [fails |-> MAX_RETRIES, links |-> 0]
    /\ site = <<>>
    /\ count = 1
    /\ ScrapeStart

RobotsNext == CheckRobots

RobotsSpec == RobotsInit /\ [][RobotsNext]_vars

----------------------------------------------------------------------------
(* Properties of _scrape_article_page, _fetch_page and scrape_articles,    *)
(* checked under ScrapeSpec                                                *)

\* the page behind url u: 0 is the listing page
PageAt(u) == IF u = 0 THEN listing ELSE site[u]

\* _scrape_article_page gives an Article for the j-th link
Extractable(j) ==
    /\ site[j].fails < MAX_RETRIES
    /\ Extract(site[j].doc, j).kind = "Article"

\* the links among lst that are extractable, in the order of lst
ExtractableOf(lst) == SelectSeq(lst, Extractable)

Urls(arts) == [k \in 1..Len(arts) |-> arts[k].url]

Got(how) == {k \in 1..Len(attempted) : attempted[k].got = how}

\* C11: every Article that _scrape_article_page returns has a non-empty
\* title of at most 500 characters, an author of at most 100 characters and
\* a content of 100 to 10,000 characters; a page whose extracted title is
\* empty or whose extracted content has fewer than 100 characters gives
\* None and no Article.
C11_ArticlesAreValid ==
    /\ \A k \in 1..Len(scraped) :
          /\ scraped[k].kind = "Article"
          /\ PyLen(scraped[k].title) \in 1..500
          /\ PyLen(scraped[k].author) <= 100
          /\ scraped[k].content \in 100..10000
    /\ \A k \in Got("article") \cup Got("none") :
          LET doc == site[attempted[k].link].doc
          IN  (PyLen(TitleLoop(doc, 1, NoText)) = 0 \/ ContentOf(doc) < 100)
                 => /\ attempted[k].got = "none"
                    /\ \A a \in 1..Len(scraped) : scraped[a].url # attempted[k].link

\* an Article whose title, author and content were all cut to the maximum
C11_Witness ==
    \E k \in 1..Len(scraped) :
        /\ PyLen(scraped[k].title) = 500
        /\ PyLen(scraped[k].author) = 100
        /\ scraped[k].content = 10000
        /\ PyLen(TitleLoop(site[scraped[k].url].doc, 1, NoText)) > 500
        /\ PyLen(AuthorOf(site[scraped[k].url].doc)) > 100
        /\ ContentOf(site[scraped[k].url].doc) > 10000

\* C12 (as stated): with exactly k extractable candidates among all the
\* candidates discovered, 1 <= k < count, scrape_articles returns exactly
\* those k articles, wherever they lie in the discovery order.
C12_ReturnsAllExtractable ==
    (/\ spc = "done"
     /\ article_links # <<>>
     /\ count >= 1
     /\ Len(ExtractableOf(article_links)) \in 1..(count - 1))
    => /\ outcome.kind = "returned"
       /\ Urls(outcome.articles) = ExtractableOf(article_links)

\* C12 (amended): the same when the k extractable candidates are among the
\* first 2 * count candidates discovered.
C12_ReturnsExtractableWithinCap ==
    (/\ spc = "done"
     /\ article_links # <<>>
     /\ count >= 1
     /\ Len(ExtractableOf(article_links)) \in 1..(count - 1)
     /\ \A j \in 1..Len(article_links) : Extractable(article_links[j]) => j <= 2 * count)
    => /\ outcome.kind = "returned"
       /\ Urls(outcome.articles) = ExtractableOf(article_links)

\* count = 3, two extractable candidates, neither of them the first one
C12_Witness ==
    /\ spc = "done"
    /\ count = 3
    /\ Len(ExtractableOf(article_links)) = 2
    /\ ~Extractable(article_links[1])
    /\ Len(outcome.articles) = 2

\* C13: scrape_articles never returns an empty list; a listing page without
\* links raises 'No article links found' before any article page is fetched;
\* links none of whose attempted pages gives an article raise 'Failed to
\* scrape any articles', a different message.
C13_NeverReturnsEmpty ==
    /\ outcome.kind = "returned" => outcome.articles # <<>>
    /\ (spc = "done" /\ listing.fails < MAX_RETRIES /\ listing.links = 0)
          => /\ outcome = Raised("No article links found")
             /\ attempted = <<>>
    /\ (spc = "done" /\ article_links # <<>> /\ Got("article") = {})
          => outcome = Raised("Failed to scrape any articles")
    /\ Raised("No article links found") # Raised("Failed to scrape any articles")

\* two candidates attempted, neither gave an article, the call has raised
C13_Witness ==
    /\ spc = "done"
    /\ Len(attempted) >= 2
    /\ Got("article") = {}
    /\ outcome.kind = "raised"

\* C14: for count >= 1 a run attempts at most 2 * count article pages,
\* attempts none once count articles are accumulated, and returns at most
\* count articles, in the order of their urls in the candidate list.
C14_BoundedAttemptsInOrder ==
    count >= 1 =>
       /\ Len(attempted) <= 2 * count
       /\ \A k \in 1..Len(attempted) :
             /\ Cardinality({j \in Got("article") : j < k}) < count
             /\ attempted[k].link = article_links[k]
       /\ Len(scraped) <= count
       /\ outcome.kind = "returned" => outcome.articles = scraped
       /\ \A a, b \in 1..Len(scraped) :
             a < b => \E i, j \in 1..Len(article_links) :
                         /\ i < j
                         /\ article_links[i] = scraped[a].url
                         /\ article_links[j] = scraped[b].url

\* a run that stopped at the cap, candidates left and count not reached
C14_Witness ==
    /\ spc = "done"
    /\ count >= 1
    /\ Len(attempted) = 2 * count
    /\ Len(article_links) > 2 * count
    /\ outcome.kind = "returned"
    /\ Len(scraped) < count

Gets == {k \in 1..Len(fetch_log) : fetch_log[k][1] = "get"}

\* C15: one _fetch_page call issues at most MAX_RETRIES requests, all for
\* its url; it returns the document at the first request that succeeds and
\* issues none after it; after the k-th failed request it sleeps
\* RETRY_DELAY * k (2, then 4) before the next one; after the
\* MAX_RETRIES-th failed request it raises the RuntimeError that names the
\* url and the attempt count, with no sleep before it, and does not return
\* None.
C15_FetchRetriesWithBackoff ==
    /\ Cardinality(Gets) <= MAX_RETRIES
    /\ \A k \in 1..Len(fetch_log) :
          IF k % 2 = 1
          THEN /\ fetch_log[k][1] = "get"
               /\ spc \in {"main", "article"} => fetch_log[k][2] = CurrentUrl
          ELSE fetch_log[k] = <<"sleep", RETRY_DELAY * (k \div 2)>>
    /\ \A k \in Gets :
          \* every request but the last one has failed
          k < Len(fetch_log) => (k + 1) \div 2 <= PageAt(fetch_log[k][2]).fails
    /\ fetched.kind = "soup" =>
          /\ fetch_log[Len(fetch_log)] = <<"get", fetched.url>>
          /\ Cardinality(Gets) = PageAt(fetched.url).fails + 1
          /\ fetched.attempts = Cardinality(Gets)
    /\ fetched.kind = "RuntimeError" =>
          /\ fetch_log = << <<"get", fetched.url>>, <<"sleep", 2>>,
                            <<"get", fetched.url>>, <<"sleep", 4>>,
                            <<"get", fetched.url>> >>
          /\ fetched.attempts = MAX_RETRIES
          /\ PageAt(fetched.url).fails >= MAX_RETRIES
    /\ fetched.kind = "none" => spc \in {"robots", "main", "article"}

\* a call that failed three times, and raised
C15_Witness ==
    /\ fetched.kind = "RuntimeError"
    /\ fetched.url > 0
    /\ Len(fetch_log) = 5

\* C16: a candidate whose fetch exhausts the retries, or whose extraction
\* throws, gives no article; the loop goes on with the next candidate and
\* the exception does not leave scrape_articles.
C16_FailedCandidateIsSkipped ==
    /\ outcome.error # "propagated"
    /\ \A k \in Got("fetch failed") \cup Got("raised") :
          /\ \A a \in 1..Len(scraped) : scraped[a].url # attempted[k].link
          /\ (k = Len(attempted) /\ spc # "done") => spc = "loop"
    /\ (spc = "done" /\ attempted # <<>>) =>
          /\ outcome = Result(scraped)
          /\ \/ Len(scraped) >= count
             \/ Len(attempted) = Len(FirstN(article_links, 2 * count))

\* after a page that never answered and a page whose reading threw, the
\* next candidate gave the article the call returns
C16_Witness ==
    /\ spc = "done"
    /\ Got("fetch failed") # {}
    /\ Got("raised") # {}
    /\ \E k \in Got("article") :
          \A j \in Got("fetch failed") \cup Got("raised") : j < k
    /\ outcome.kind = "returned"

RECURSIVE Collect(_, _, _)
\* the articles of the first n extractable links of lst
Collect(lst, got, n) ==
    IF lst = <<>> \/ Len(got) >= n THEN got
    ELSE Collect(Tail(lst),
                 IF Extractable(Head(lst))
                 THEN Append(got, Extract(site[Head(lst)].doc, Head(lst)))
                 ELSE got,
                 n)

\* what the pages and the count alone make of a run
Expected ==
    IF listing.fails >= MAX_RETRIES THEN Raised("Failed to fetch")
    ELSE IF listing.links = 0 THEN Raised("No article links found")
    ELSE LET got == Collect(FirstN([j \in 1..listing.links |-> j], 2 * count), <<>>, count)
         IN  IF got = <<>> THEN Raised("Failed to scrape any articles")
             ELSE [kind |-> "returned", articles |-> got, error |-> ""]

\* C18: the robots check returns true when the fetch of robots.txt fails
\* or its status is not 200, and what scrape_articles returns or raises is
\* fixed by the pages and the count, whatever the robots check returned.
C18_RobotsCheckIsAdvisory ==
    /\ (allowed # <<>> /\ (robots_txt.error \/ robots_txt.status # 200))
          => allowed = <<TRUE>>
    /\ spc = "done" => outcome = Expected

\* the robots check returned false and the run returned articles
C18_Witness ==
    /\ allowed = <<FALSE>>
    /\ spc = "done"
    /\ outcome.kind = "returned"

----------------------------------------------------------------------------
(* Property of _check_robots_txt, checked under RobotsSpec *)

\* C17: the robots check returns false for every robots.txt body, served
\* with status 200, in which a line 'Disallow: /' is one of the 5 lines
\* that follow a line 'User-agent: *'.
C17_DisallowWithinFiveLines ==
    (/\ allowed # <<>>
     /\ \E at \in 1..Len(robots_txt.lines) :
           /\ robots_txt.lines[at] = agent_line
           /\ \E j \in (at + 1)..(at + 5) :
                 /\ j <= Len(robots_txt.lines)
                 /\ robots_txt.lines[j] = disallow_line)
    => allowed = <<FALSE>>

----------------------------------------------------------------------------
----------------------------------------------------------------------------
(* app.py: generate and api_generate; digest_generator.py: main            *)
(*                                                                         *)
(* The submitted count is [type, chars, num]: a form field is a "str" of   *)
(* characters, a JSON value is an "int", a "float" given in tenths, "inf"  *)
(* (1e999), "nan", a "bool", a "str", "null" or a "list"; click hands main *)
(* an "int".                                                               *)

MaxChars == 3        \* longest count string

Digits == {"0", "1", "2", "3", "7"}

DigitValue == [d \in Digits |-> CASE d = "0" -> 0 [] d = "1" -> 1 [] d = "2" -> 2
                                  [] d = "3" -> 3 [] d = "7" -> 7]

RECURSIVE Decimal(_, _)
\* the number the digits ds write, after the digits that made acc
Decimal(ds, acc) ==
    IF ds = <<>> THEN acc ELSE Decimal(Tail(ds), 10 * acc + DigitValue[Head(ds)])

Ok(v) == [exc |-> "", v |-> v]

Exc(name) == [exc |-> name, v |-> 0]

\* int(x) of a str
IntOfStr(chars) ==
    LET neg == chars # <<>> /\ Head(chars) = "-"
        ds == IF neg THEN Tail(chars) ELSE chars
    IN  IF ds # <<>> /\ \A k \in 1..Len(ds) : ds[k] \in Digits
        THEN Ok(IF neg THEN 0 - Decimal(ds, 0) ELSE Decimal(ds, 0))
        ELSE Exc("ValueError")

\* int(x)
IntOf(x) ==
    CASE x.type = "int" -> Ok(x.num)
      [] x.type = "bool" -> Ok(x.num)
      [] x.type = "float" ->
            Ok(IF x.num >= 0 THEN x.num \div 10 ELSE 0 - ((0 - x.num) \div 10))
      [] x.type = "inf" -> Exc("OverflowError")
      [] x.type = "nan" -> Exc("ValueError")
      [] x.type = "str" -> IntOfStr(x.chars)
      [] OTHER -> Exc("TypeError")

Max(a, b) == IF a > b THEN a ELSE b

\* app.py lines 219 and 285: max(1, min(count, 20))
Clamp(n) == Max(1, Min(n, 20))

\* app.py lines 217-221 and 283-287: the except clause of each route
Caught(r) ==
    IF r = "generate" THEN {"ValueError"} ELSE {"ValueError", "TypeError"}

\* the try statement of lines 217-221 and 283-287
CountOf(r, x) ==
    LET n == IntOf(x)
    IN  IF n.exc = "" THEN Ok(Clamp(n.v))
        ELSE IF n.exc \in Caught(r) THEN Ok(10)
        ELSE n

Value(type, chars, num) == [type |-> type, chars |-> chars, num |-> num]

CountChars == Digits \cup {"-", ".", "a"}

FormCounts == {Value("str", c, 0) : c \in SeqsUpTo(CountChars, MaxChars)}

IntCounts == {Value("int", <<>>, n) : n \in {0 - 3, 0, 1, 7, 20, 21, 37}}

JsonCounts ==
    IntCounts
    \cup {Value("float", <<>>, n) : n \in {0 - 5, 5, 37, 205, 255}}
    \cup {Value("bool", <<>>, n) : n \in {0, 1}}
    \cup {Value(t, <<>>, 0) : t \in {"inf", "nan", "null", "list"}}
    \cup {Value("str", c, 0) : c \in SeqsUpTo(CountChars, 2)}

Reply(kind, error) == [kind |-> kind, error |-> error]

\* how each handler answers an exception of its try block: app.py lines
\* 268-273 and 312-313, digest_generator.py lines 125-145
Handle(r, exc) == Reply("error", exc)

\* lines 217-221, 283-287; click has made the count of main an int
ParseCount ==
    /\ apc = "count"
    /\ IF route = "main"
       THEN /\ local_count' = raw_count.num
            /\ apc' = "scrape"
            /\ UNCHANGED reply
       ELSE LET n == CountOf(route, raw_count)
            IN  IF n.exc = ""
                THEN /\ local_count' = n.v
                     /\ apc' = "scrape"
                     /\ UNCHANGED reply
                ELSE \* the exception leaves the view function
                     /\ reply' = Reply("unhandled", n.exc)
                     /\ apc' = "done"
                     /\ UNCHANGED local_count
    /\ UNCHANGED <<route, raw_count, api_key, local_articles, events,
                   parseVars, linkVars, scrapeVars, payVars>>

\* what `articles, site_name = ...` of app.py lines 249 and 297 binds
\* articles to, given the list returned
Unpack(lst) ==
    IF Len(lst) = 2 THEN [exc |-> "", v |-> lst[1]]
    ELSE [exc |-> "ValueError: unpack", v |-> 0]

\* app.py lines 231-252, 296-300, digest_generator.py lines 81-91: the
\* scraper runs; it fetches at least the listing page, returns 1..count
\* articles or raises RuntimeError
CallScraper ==
    /\ apc = "scrape"
    /\ \E n \in 0..Min(local_count, MaxCount) :
          /\ events' = events \o << <<"scrape_articles", local_count>>,
                                   <<"GET listing", 0>> >>
                              \o [k \in 1..n |-> <<"GET article", k>>]
          /\ IF n = 0
             THEN /\ reply' = Handle(route, "RuntimeError")
                  /\ apc' = "done"
                  /\ UNCHANGED local_articles
             ELSE IF route = "main"
             THEN /\ local_articles' = [k \in 1..n |-> k]
                  /\ apc' = "generator"
                  /\ UNCHANGED reply
             ELSE LET u == Unpack([k \in 1..n |-> k])
                  IN  IF u.exc = ""
                      THEN /\ local_articles' = u.v
                           /\ apc' = "generator"
                           /\ UNCHANGED reply
                      ELSE /\ reply' = Handle(route, u.exc)
                           /\ apc' = "done"
                           /\ UNCHANGED local_articles
    /\ UNCHANGED <<route, raw_count, api_key, local_count, parseVars, linkVars,
                   scrapeVars, payVars>>

\* summarizer.py lines 246-249, called at app.py lines 255 and 302 and at
\* digest_generator.py line 96
MakeGenerator ==
    /\ apc = "generator"
    /\ events' = Append(events, <<"DigestGenerator", 0>>)
    /\ IF api_key
       THEN /\ apc' = "digest"
            /\ UNCHANGED reply
       ELSE /\ reply' = Handle(route, "ValueError: ANTHROPIC_API_KEY not found")
            /\ apc' = "done"
    /\ UNCHANGED <<route, raw_count, api_key, local_count, local_articles,
                   parseVars, linkVars, scrapeVars, payVars>>

\* generate_digest, summarizer.py lines 251-278: the prompt is built from
\* the articles (a list for main, one Article for the web routes: line 101
\* iterates it and raises TypeError), the model is asked, its reply parsed
GenerateDigest ==
    /\ apc = "digest"
    /\ IF route = "main"
       THEN \E answered \in BOOLEAN :
               /\ events' = Append(events, <<"messages.create", Len(local_articles)>>)
               /\ reply' = IF answered THEN Reply("digest", "")
                           ELSE Handle(route, "APIError")
       ELSE /\ reply' = Handle(route, "TypeError")
            /\ UNCHANGED events
    /\ apc' = "done"
    /\ UNCHANGED <<route, raw_count, api_key, local_count, local_articles,
                   parseVars, linkVars, scrapeVars, payVars>>

AppInit ==
    /\ route \in {"main", "generate", "api_generate"}
    /\ raw_count \in CASE route = "main" -> IntCounts
                      [] route = "generate" -> FormCounts
                      [] OTHER -> JsonCounts
    /\ api_key \in BOOLEAN
    /\ local_count = 0
    /\ local_articles = <<>>
    /\ events = <<>>
    /\ reply = Reply("none", "")
    /\ apc = "count"
    /\ ParseIdle
    /\ LinkIdle
    /\ ScrapeIdle
    /\ PayIdle

AppNext == ParseCount \/ CallScraper \/ MakeGenerator \/ GenerateDigest

AppSpec == AppInit /\ [][AppNext]_vars

----------------------------------------------------------------------------
(* Claims about the handlers                                               *)

WebRoute == route \in {"generate", "api_generate"}

\* the characters of a count string after its sign
Unsigned(chars) ==
    IF chars # <<>> /\ Head(chars) = "-" THEN Tail(chars) ELSE chars

\* a count string that writes a decimal number: an optional sign, digits
\* and at most one point, at least one digit
IsDecimalStr(chars) ==
    LET u == Unsigned(chars)
    IN  /\ \A k \in 1..Len(u) : u[k] \in Digits \cup {"."}
        /\ \E k \in 1..Len(u) : u[k] \in Digits
        /\ Cardinality({k \in 1..Len(u) : u[k] = "."}) <= 1

\* the digits before the point, and those after it
IntPart(chars) ==
    LET u == Unsigned(chars)
        dot == {k \in 1..Len(u) : u[k] = "."}
    IN  IF dot = {} THEN u ELSE SubSeq(u, 1, (CHOOSE k \in dot : TRUE) - 1)

FracPart(chars) ==
    LET u == Unsigned(chars)
        dot == {k \in 1..Len(u) : u[k] = "."}
    IN  IF dot = {} THEN <<>> ELSE SubSeq(u, (CHOOSE k \in dot : TRUE) + 1, Len(u))

Negative(chars) == chars # <<>> /\ Head(chars) = "-"

NonNumeric(x) ==
    \/ x.type \in {"null", "list"}
    \/ x.type = "str" /\ ~IsDecimalStr(x.chars)

Below1(x) ==
    \/ x.type = "int" /\ x.num < 1
    \/ x.type = "float" /\ x.num < 10
    \/ /\ x.type = "str"
       /\ IsDecimalStr(x.chars)
       /\ Negative(x.chars) \/ Decimal(IntPart(x.chars), 0) = 0

Above20(x) ==
    \/ x.type = "int" /\ x.num > 20
    \/ x.type = "float" /\ x.num > 200
    \/ x.type = "inf"
    \/ /\ x.type = "str"
       /\ IsDecimalStr(x.chars)
       /\ ~Negative(x.chars)
       /\ \/ Decimal(IntPart(x.chars), 0) > 20
          \/ /\ Decimal(IntPart(x.chars), 0) = 20
             /\ \E k \in 1..Len(FracPart(x.chars)) : FracPart(x.chars)[k] # "0"

\* an integer of 1..20, written as an integer
InRange(x) ==
    \/ x.type = "int" /\ x.num \in 1..20
    \/ /\ x.type = "str"
       /\ IsDecimalStr(x.chars)
       /\ ~Negative(x.chars)
       /\ Len(IntPart(x.chars)) = Len(x.chars)
       /\ Decimal(x.chars, 0) \in 1..20

InRangeValue(x) == IF x.type = "int" THEN x.num ELSE Decimal(x.chars, 0)

\* C19: in the web form route and the JSON API route the count handed to
\* the scraper is an integer of 1..20: a non-numeric input becomes 10, a
\* numeric input below 1 becomes 1, a numeric input above 20 becomes 20,
\* an input already in 1..20 is passed unchanged.
C19_WebCountIsClamped ==
    (WebRoute /\ apc # "count") =>
        /\ reply.kind # "unhandled" => local_count \in 1..20
        /\ \A k \in 1..Len(events) :
              events[k][1] = "scrape_articles" => events[k][2] \in 1..20
        /\ NonNumeric(raw_count) =>
              reply.kind # "unhandled" /\ local_count = 10
        /\ Below1(raw_count) =>
              reply.kind # "unhandled" /\ local_count = 1
        /\ Above20(raw_count) =>
              reply.kind # "unhandled" /\ local_count = 20
        /\ InRange(raw_count) =>
              reply.kind # "unhandled" /\ local_count = InRangeValue(raw_count)

\* C20: with the API credential missing, a run of main, generate or
\* api_generate fetches no listing page and no article page, sends no
\* request to the model, and ends with the configuration error.
C20_MissingKeyStopsBeforeAnyFetch ==
    ~api_key =>
        /\ \A k \in 1..Len(events) :
              events[k][1] \notin {"GET listing", "GET article", "messages.create"}
        /\ (apc = "done" /\ reply.kind # "unhandled") =>
              reply = Handle(route, "ValueError: ANTHROPIC_API_KEY not found")

----------------------------------------------------------------------------
(* Further properties of the parser                                        *)

\* C21: parsed with output_type "digest" (no social output requested), the
\* digest the parser returns has an empty social_posts, whatever the reply,
\* a reply with a SOCIAL_POSTS: section included.
C21_NoSocialPostsForDigestStyle ==
    (Returned /\ output_type = "digest") => result.social_posts = <<>>

\* the place of a section in the order NONE, HEADLINE, COMBINED_SUMMARY,
\* ARTICLES, SOCIAL_POSTS
SectionRank(section) ==
    CASE section = "none" -> 0
      [] section = "headline" -> 1
      [] section = "combined_summary" -> 2
      [] section = "articles" -> 3
      [] section = "social_posts" -> 4

\* C22: during one parse the section state only moves forward in the order
\* NONE, HEADLINE, COMBINED_SUMMARY, ARTICLES, SOCIAL_POSTS, and no line
\* moves it out of SOCIAL_POSTS.
C22_SectionOnlyMovesForward ==
    [][ /\ SectionRank(current_section') >= SectionRank(current_section)
        /\ current_section = "social_posts" => current_section' = "social_posts"
      ]_vars

\* the records opened so far, in the order they were opened: those already
\* in the output list, then the open one
Opened(lst, rec) == lst \o (IF DOMAIN rec # {} THEN <<rec>> ELSE <<>>)

\* new holds the records of old, in order and once each: unchanged, or with
\* the open (last) record filled further, or with one more record opened
KeepsRecords(old, new) ==
    \/ new = old
    \/ /\ Len(new) = Len(old)
       /\ Len(old) > 0
       /\ SubSeq(new, 1, Len(old) - 1) = SubSeq(old, 1, Len(old) - 1)
       /\ DOMAIN old[Len(old)] \subseteq DOMAIN new[Len(old)]
       /\ \A k \in DOMAIN old[Len(old)] \cap {"title", "headline"} :
             new[Len(old)][k] = old[Len(old)][k]
    \/ /\ Len(new) = Len(old) + 1
       /\ SubSeq(new, 1, Len(old)) = old

\* a record without the url the parser adds before it returns
WithoutUrl(rec) == [k \in DOMAIN rec \ {"url"} |-> rec[k]]

\* a line "TITLE: ..." or "n. TITLE: ...", and the same for p = POST_HEADLINE:
IsOpeningLine(line, p) ==
    \/ StartsWith(line, p)
    \/ Len(line) >= 2 /\ line[1] \in NumberTokens /\ line[2] = p

WithContinuation(rec, line) ==
    Put(rec, "summary", Get(rec, "summary", <<>>) \o line)

\* C24: while the section is ARTICLES or SOCIAL_POSTS and the record of that
\* section is open, a line without grammar prefix is appended to the summary
\* of that record, also when the record has no summary yet and when a post
\* line starts with a digit and holds a full stop.
C24_UnprefixedLineIsAppended ==
    [][ (pc = "loop" /\ idx < Len(response) /\ NoGrammarPrefix(response[idx + 1])) =>
          /\ (current_section = "articles" /\ DOMAIN current_article # {}) =>
                current_article' = WithContinuation(current_article, response[idx + 1])
          /\ (current_section = "social_posts" /\ DOMAIN current_post # {}) =>
                current_post' = WithContinuation(current_post, response[idx + 1])
      ]_vars

\* the parser's state after one more line, by the branches of ParseLine
AfterLine(st, line) ==
    LET b == Branch(line, st.section, st.article, st.post)
    IN  [section |->
            CASE b = "headline" -> "headline"
              [] b = "combined_summary" -> "combined_summary"
              [] b = "article_summaries" -> "articles"
              [] b = "social_posts" -> "social_posts"
              [] OTHER -> st.section,
         result |->
            CASE b = "headline" ->
                   [st.result EXCEPT !.headline = Replace(line, "HEADLINE:")]
              [] b = "combined_summary" ->
                   [st.result EXCEPT !.combined_summary =
                                         Replace(line, "COMBINED_SUMMARY:")]
              [] b = "cs_continue" ->
                   [st.result EXCEPT !.combined_summary = @ \o line]
              [] b \in {"social_posts", "numbered_title", "title"} ->
                   [st.result EXCEPT !.article_summaries = Flush(@, st.article)]
              [] b \in {"numbered_post_headline", "post_headline"} ->
                   [st.result EXCEPT !.social_posts = Flush(@, st.post)]
              [] OTHER -> st.result,
         article |->
            CASE b = "social_posts" -> EmptyDict
              [] b = "numbered_title" ->
                   Put(EmptyDict, "title", AfterFirst(line, "TITLE:"))
              [] b = "title" -> Put(EmptyDict, "title", Replace(line, "TITLE:"))
              [] b = "author" -> Put(st.article, "author", Replace(line, "AUTHOR:"))
              [] b = "summary" -> Put(st.article, "summary", Replace(line, "SUMMARY:"))
              [] b = "article_continue" -> AppendSummary(st.article, line)
              [] OTHER -> st.article,
         post |->
            CASE b = "numbered_post_headline" ->
                   Put(EmptyDict, "headline", AfterFirst(line, "POST_HEADLINE:"))
              [] b = "post_headline" ->
                   Put(EmptyDict, "headline", Replace(line, "POST_HEADLINE:"))
              [] b = "post_summary" ->
                   Put(st.post, "summary", Replace(line, "POST_SUMMARY:"))
              [] b = "post_continue" -> AppendSummary(st.post, line)
              [] OTHER -> st.post]

RECURSIVE AfterLines(_, _, _)
\* the parser's state after the lines k.. of the reply text, read from state st
AfterLines(text, k, st) ==
    IF k > Len(text) THEN st
    ELSE AfterLines(text, k + 1, AfterLine(st, text[k]))

\* the digest _parse_response returns for the reply text
DigestOf(text, arts) ==
    LET st == AfterLines(text, 1,
                         [section |-> "none", result |-> EmptyResult,
                          article |-> EmptyDict, post |-> EmptyDict])
    IN  [st.result EXCEPT
            !.article_summaries = AddUrls(Flush(@, st.article), arts),
            !.social_posts = AddUrls(Flush(@, st.post), arts)]

RECURSIVE WithoutBlanks(_)
WithoutBlanks(text) ==
    IF text = <<>> THEN <<>>
    ELSE (IF Head(text) = <<>> THEN <<>> ELSE <<Head(text)>>)
         \o WithoutBlanks(Tail(text))

RECURSIVE WithoutProse(_)
\* the reply text without the lines ahead of its first line that has a
\* grammar prefix
WithoutProse(text) ==
    IF text # <<>> /\ NoGrammarPrefix(Head(text))
    THEN WithoutProse(Tail(text))
    ELSE text

\* the reply all its drifted forms share: no blank line, no prose ahead
Undrifted(text) == WithoutProse(WithoutBlanks(text))

\* C25: the digest of a reply is the digest of the same reply without its
\* blank lines and without the unprefixed lines ahead of its first prefixed
\* line, so replies that differ only by blank lines anywhere and by prose
\* prepended before the HEADLINE: line parse to the same digest.
C25_DigestUnchangedByDrift ==
    pc = "parsed" => result = DigestOf(Undrifted(response), articles)

\* a reply with prose ahead of its HEADLINE: line and a blank line after it
\* has been parsed
C25_Witness ==
    /\ pc = "parsed"
    /\ response = << <<"w5", UrlToken>>, <<"HEADLINE:", "w1">>, <<>> >>
    /\ Undrifted(response) = << <<"HEADLINE:", "w1">> >>
    /\ result.headline = <<"w1">>

----------------------------------------------------------------------------
(* Further properties of the scraper                                       *)

\* C26: between any two consecutive article-page fetches of one run a
\* politeness delay elapses: time.sleep(0.5) has run after the page of
\* every candidate but the last one attempted, also after a page from which
\* no article could be extracted.
C26_DelayBetweenArticleFetches ==
    \A k \in 1..(Len(attempted) - 1) :
        \* the page of candidate k + 1 has been requested
        (k + 1 < Len(attempted) \/ fetch_log # <<>>) =>
            \E n \in 1..Len(naps) : naps[n] = attempted[k].link

\* the candidates whose page has been read to the end
Read == {k \in 1..Len(attempted) : attempted[k].got \in {"article", "none"}}

DocOf(k) == site[attempted[k].link].doc

\* the selectors of a cascade whose text, as given by text, is non-empty
\* and shorter than limit
Passing(doc, selectors, text(_), limit) ==
    {k \in 1..Len(selectors) :
        /\ Matched(doc, selectors[k])
        /\ PyLen(text(doc.sel[selectors[k]])) > 0
        /\ PyLen(text(doc.sel[selectors[k]])) < limit}

\* the first of a non-empty set of positions
First(ks) == CHOOSE k \in ks : \A j \in ks : k <= j

TitleText(el) == el.text

\* the title as claimed: the text of the first title selector whose match is
\* non-empty and under 300 characters, else empty
FirstPassingTitle(doc) ==
    LET ks == Passing(doc, title_selectors, TitleText, 300)
    IN  IF ks = {} THEN NoText ELSE doc.sel[title_selectors[First(ks)]].text

\* C27: the extracted title is the text of the first selector of the title
\* cascade whose match is non-empty and under 300 characters; when no match
\* passes, the title is empty and no Article is returned for the page.
C27_TitleIsFirstPassingMatch ==
    \A k \in Read :
        /\ TitleLoop(DocOf(k), 1, NoText) = FirstPassingTitle(DocOf(k))
        /\ FirstPassingTitle(DocOf(k)) = NoText => attempted[k].got = "none"

CleanedText(el) == CleanAuthorName(el.text)

\* the author as claimed: the cleaned text of the first author selector
\* whose cleaned match is non-empty and under 100 characters, else the
\* sentinel
FirstPassingAuthor(doc) ==
    LET ks == Passing(doc, author_selectors, CleanedText, 100)
    IN  IF ks = {} THEN UnknownAuthor
        ELSE CleanedText(doc.sel[author_selectors[First(ks)]])

\* C28: the extracted author is the cleaned text of the first selector of
\* the author cascade whose cleaned match is non-empty and under 100
\* characters; when no cleaned match passes, it is 'Unknown Author'.
C28_AuthorIsFirstPassingMatch ==
    \A k \in Read : AuthorOf(DocOf(k)) = FirstPassingAuthor(DocOf(k))

----------------------------------------------------------------------------
(* Further properties of the handlers                                      *)

\* scrape_articles has returned one or more articles to the handler
ScrapedSome == \E k \in 1..Len(events) : events[k][1] = "GET article"

\* C29: in the routes generate (recent mode) and api_generate, when
\* scrape_articles succeeds with one or more articles and the model's reply
\* is received, the handler responds with the digest built from those
\* articles, not with an error response.
C29_WebRouteAnswersWithDigest ==
    (/\ WebRoute
     /\ apc = "done"
     /\ api_key
     /\ ScrapedSome
     /\ reply.error # "APIError")
    => reply.kind = "digest"


----------------------------------------------------------------------------
(* payments.py: handle_successful_payment, called for one checkout session
   by any number of requests.  Every request runs in a database session of
   its own: it reads committed rows, changes its own copies of them and
   writes them back when it commits.  A step of the model is one statement
   that reads or writes the database; the steps of different calls
   interleave freely. *)

MaxCalls == 2

\* PRICING_TIERS: the credits of the three packs
PackCredits == {1, 10, 100}
Balances == {0, 3}
\* who calls: the /purchase/success route, the webhook for
\* 'checkout.session.completed', the webhook for another event type
Callers == {"purchase_success", "webhook", "webhook_other"}

NewCall(via) == [via |-> via, pc |-> "retrieve", seen |-> 0, ret |-> "none"]

PayInit ==
    /\ payment_status \in {"paid", "unpaid"}
    /\ \E found \in BOOLEAN, n \in PackCredits :
           purchase = [found |-> found, status |-> "pending",
                       credits_purchased |-> n]
    /\ credits \in Balances
    /\ credits_before = credits
    /\ \E k \in 1..MaxCalls :
           calls \in [1..k -> {NewCall(via) : via \in Callers}]
    /\ ParseIdle
    /\ LinkIdle
    /\ ScrapeIdle
    /\ AppIdle

Returns(c, value) == [calls EXCEPT ![c].pc = "done", ![c].ret = value]

\* purchase_success hands its session_id on; handle_webhook_event does so
\* for 'checkout.session.completed' only.  Then Session.retrieve, which may
\* raise a StripeError, and the test of payment_status.
Retrieve(c) ==
    /\ calls[c].pc = "retrieve"
    /\ IF calls[c].via = "webhook_other"
       THEN calls' = Returns(c, "none")
       ELSE \E stripe_error \in BOOLEAN :
                IF stripe_error \/ payment_status # "paid"
                THEN calls' = Returns(c, "False")
                ELSE calls' = [calls EXCEPT ![c].pc = "find"]
    /\ UNCHANGED <<payment_status, purchase, credits, credits_before,
                   parseVars, linkVars, scrapeVars, appVars>>

\* Purchase.query.filter_by(...).first() and the two tests on the row
FindPurchase(c) ==
    /\ calls[c].pc = "find"
    /\ IF ~purchase.found
       THEN calls' = Returns(c, "False")
       ELSE IF purchase.status = "completed"
            THEN calls' = Returns(c, "True")
            ELSE calls' = [calls EXCEPT ![c].pc = "load"]
    /\ UNCHANGED <<payment_status, purchase, credits, credits_before,
                   parseVars, linkVars, scrapeVars, appVars>>

\* the row is marked in the call's own session, then User.query.get reads
\* the buyer's row as committed at this moment
LoadUser(c) ==
    /\ calls[c].pc = "load"
    /\ calls' = [calls EXCEPT ![c].pc = "add", ![c].seen = credits]
    /\ UNCHANGED <<payment_status, purchase, credits, credits_before,
                   parseVars, linkVars, scrapeVars, appVars>>

\* add_credits: user.credits += amount on the value read, and the commit,
\* which also writes the status of the purchase
AddCredits(c) ==
    /\ calls[c].pc = "add"
    /\ credits' = calls[c].seen + purchase.credits_purchased
    /\ purchase' = [purchase EXCEPT !.status = "completed"]
    /\ calls' = Returns(c, "True")
    /\ UNCHANGED <<payment_status, credits_before,
                   parseVars, linkVars, scrapeVars, appVars>>

PayNext ==
    \E c \in DOMAIN calls :
        \/ Retrieve(c)
        \/ FindPurchase(c)
        \/ LoadUser(c)
        \/ AddCredits(c)

PaySpec == PayInit /\ [][PayNext]_vars

AllCallsFinished == \A c \in DOMAIN calls : calls[c].pc = "done"
SomeCallSucceeded == \E c \in DOMAIN calls : calls[c].ret = "True"

\* C30: for one paid checkout session the credits are added at most once
\* under any interleaving of the calls of handle_successful_payment: the
\* balance never exceeds the balance before plus credits_purchased, and
\* when all calls have finished and one of them succeeded, the balance has
\* grown by exactly credits_purchased and the purchase is 'completed'.
C30_CreditsAddedOnce ==
    /\ credits <= credits_before + purchase.credits_purchased
    /\ (AllCallsFinished /\ SomeCallSucceeded) =>
           /\ credits = credits_before + purchase.credits_purchased
           /\ purchase.status = "completed"

\* two calls for the session both came to add the credits
C30_AddedTwice ==
    /\ AllCallsFinished
    /\ purchase.status = "completed"
    /\ credits = credits_before + 2 * purchase.credits_purchased
====
